---------------------------- MODULE Spec2Model ----------------------------
(***************************************************************************)
(* Model of the outbound-call relay bridge (OutboundWebSocketHandler in    *)
(* src/app/handlers/websocket_handler.py): one telephony (Twilio) socket,  *)
(* one AI (ElevenLabs) socket, two concurrent read loops started by        *)
(* asyncio.gather, and the teardown in _cleanup.  The coroutines are split *)
(* at their await points; everything between two awaits is one step.      *)
(***************************************************************************)
EXTENDS Integers, Sequences, FiniteSets, TLC

(* ------------------------------ bounds -------------------------------- *)
\* number of frames the two peers send to the bridge during one call
MaxFrames == 3
\* dashboard websockets that may connect
MaxObservers == 2

\* broadcast() calls that may be made, concurrently
MaxBroadcasts == 2

\* calls made on the call-metadata correlation store
MaxOps == 4

\* requests passed to initiate_batched_calls, and the largest batch_size
MaxRequests == 4
MaxBatch == 2

\* number of calls on the open AI socket that fail unexpectedly: a send()
\* raising an error other than ConnectionClosed, or a close() raising
MaxSendFaults == 1

(* ------------------------------ values -------------------------------- *)
None == "None"

\* Python truthiness of the strings (or None) the handler tests with `if x:`
Truthy(x) == x \notin {None, ""}

\* Python truthiness of an integer
TruthyInt(n) == n # 0

\* Telephony frames as parsed by json.loads in _handle_twilio_messages.
TelFrame(ev, sid, call, hasParams, name, phone, payload) ==
    [event |-> ev, streamSid |-> sid, callSid |-> call,
     hasParams |-> hasParams, client_name |-> name, phone_number |-> phone,
     payload |-> payload]

\* The n-th frame of the telephony peer, when it is a start frame, names the
\* stream StreamSid(n) and the call CallSid(n).
StreamSid(n) == "MZ" \o ToString(n)
CallSid(n)   == "CA" \o ToString(n)

\* customParameters with a name and a phone number
StartWithParams(n) ==
    TelFrame("start", StreamSid(n), CallSid(n), TRUE, "Ann", "555", None)
\* no customParameters (absent or empty)
StartNoParams(n) ==
    TelFrame("start", StreamSid(n), CallSid(n), FALSE, "", "", None)
\* customParameters with a phone number and no client_name
StartPhoneOnly(n) ==
    TelFrame("start", StreamSid(n), CallSid(n), TRUE, "", "555", None)
MediaFrame(p)   == TelFrame("media", None, None, FALSE, "", "", p)
StopFrame       == TelFrame("stop", None, None, FALSE, "", "", None)
OtherFrame      == TelFrame("mark", None, None, FALSE, "", "", None)
\* a frame without the "event" key: data.get("event") is None
NoEventFrame    == TelFrame(None, None, None, FALSE, "", "", None)
\* text that json.loads rejects
UnparseableFrame == TelFrame("<not json>", None, None, FALSE, "", "", None)
\* {"event": "start"} without the "start" object: data["start"] raises KeyError
StartNoFields   == TelFrame("start", None, None, FALSE, "", "", None)

\* Audio payloads are opaque to the bridge: the n-th frame a peer sends carries
\* the payload Payload(n), so that every payload of a call is distinct.
Payload(n) == "audio" \o ToString(n)

\* the payload of the second wire shape (audio_event.audio_base_64) of the
\* n-th message, distinct from the one at audio.chunk
AltPayload(n) == "alt" \o ToString(n)

TelFrames(n) == {StartWithParams(n), StartNoParams(n), StartPhoneOnly(n),
                 StopFrame, OtherFrame, NoEventFrame,
                 MediaFrame(Payload(n)), UnparseableFrame, StartNoFields}

\* json.loads raises, or the start branch raises KeyError
Malformed(f) ==
    \/ f.event = "<not json>"
    \/ f.event = "start" /\ f.streamSid = None

\* AI messages as parsed by json.loads in _handle_elevenlabs_messages.
AiMsg(type, eventId, chunk, b64, conv) ==
    [type |-> type, event_id |-> eventId, chunk |-> chunk,
     audio_base_64 |-> b64, conversation_id |-> conv]

PingMsg(id)   == AiMsg("ping", id, None, None, None)
AudioMsg(c, b) == AiMsg("audio", 0, c, b, None)
InterruptionMsg == AiMsg("interruption", 0, None, None, None)
MetadataMsg(c) == AiMsg("conversation_initiation_metadata", 0, None, None, c)
\* text that json.loads rejects
UnparseableMsg == AiMsg("<not json>", 0, None, None, None)

EventIds == {0, 7}

\* audio messages of both wire shapes: audio.chunk alone, both fields,
\* audio_event.audio_base_64 alone (audio.chunk empty), neither
AudioMsgs(n) == {AudioMsg(Payload(n), None),
                 AudioMsg(Payload(n), AltPayload(n)),
                 AudioMsg("", AltPayload(n)),
                 AudioMsg(None, "")}

AiMsgs(n) == {PingMsg(id) : id \in EventIds}
              \cup AudioMsgs(n)
              \cup {InterruptionMsg, MetadataMsg("conv1"), UnparseableMsg}

\* Ways the AI socket can end as seen by the reader: "ok" is a close with
\* code 1000/1001 (ConnectionClosedOK: `async for` just stops), "error" is
\* any other end of the connection (ConnectionClosedError is raised).
CloseKinds == {"ok", "error"}

(* ------------------------------ state --------------------------------- *)
VARIABLES
    hPc,               \* position of handle(): "setup","relay","cleanup","done"
    elPc,              \* position of _handle_elevenlabs_messages
    twPc,              \* position of _handle_twilio_messages
    elevenlabs_ws,     \* self.elevenlabs_ws: None or "ws"
    elevenlabs_closed, \* self.elevenlabs_closed
    stream_sid,        \* self.stream_sid
    call_sid,          \* self.call_sid
    conversation_id,   \* self.conversation_id
    client_name,       \* self.client_name
    phone_number,      \* self.phone_number
    aiState,           \* AI socket: "none", "open", "closed"
    aiCloseKind,       \* how the AI socket ended: None, "ok", "error"
    aiIn,              \* messages received on the AI socket, not yet read
    aiOut,             \* send() calls made on the AI socket, in order
    aiCloseCalls,      \* number of close() calls made on the AI socket
    telIn,             \* frames received on the telephony socket, not yet read
    telOut,            \* send_text() calls made on the telephony socket
    telClient,         \* websocket.client_state
    telApp,            \* websocket.application_state
    telPeerGone,       \* the telephony peer has dropped the connection
    telCloseCalls,     \* number of close() calls made on the telephony socket
    telSupplied,       \* frames the telephony peer has sent so far
    aiSupplied,        \* messages the AI provider has sent so far
    sendFaults,        \* calls on the open AI socket that failed unexpectedly
    mediaConsumed,     \* payloads of the media frames read by the telephony loop
    telReads,          \* number of frames read from the telephony socket
    links,             \* CallRecordService._conversation_to_call
    setupFailed,       \* _setup_elevenlabs raised
    handleResult,      \* how handle() ended: None, "returned", "raised"
    ELEVENLABS_API_KEY,   \* Config.ELEVENLABS_API_KEY (None when the variable is unset)
    ELEVENLABS_AGENT_ID,  \* Config.ELEVENLABS_AGENT_ID
    httpRequests,      \* HTTP requests issued by get_signed_url
    httpStatus,        \* status code of the response, 0 when none has come
    setupError,        \* the exception _setup_elevenlabs raised, None if none
    connections,       \* DashboardConnectionManager._connections
    locked,            \* DashboardConnectionManager._lock is held
    obPc,              \* per dashboard websocket: position of its route coroutine
    bcPc,              \* per broadcast() call: its position
    snapshot,          \* per broadcast() call: `connections`, the copied list
    sendPc,            \* per broadcast() call and websocket: position of _send(ws)
    received,          \* per dashboard websocket and broadcast: messages delivered
    discardCalls,      \* per dashboard websocket: completed disconnect(ws) calls
    dashErrors,        \* exceptions raised inside disconnect()
    bcResult,          \* per broadcast() call: None, "returned" or "raised"
    startsRead,        \* the start frames read by the telephony loop, in order
    aiClosedBy,        \* who has called close() on the AI socket: "stop", "cleanup"
    parseErrors,       \* the loops that have read a frame they could not parse
    stopAt,            \* what held when the telephony loop read a stop frame
    audioEligible,     \* payloads of the audio messages the AI loop has read
                       \* with a non-empty payload while stream_sid was set
    aiRead,            \* the audio and interruption messages the AI loop has
                       \* read, each with the stream_sid of that moment
    call_metadata,     \* CallRecordService._call_metadata
    opLog,             \* the calls made on the correlation store, in order
    bPc,               \* position of initiate_batched_calls
    call_requests,     \* its argument call_requests
    batch_size,        \* its argument batch_size
    batch_num,         \* the loop variable batch_num
    callState,         \* per request: "pending", "inflight", "ok", "failed"
    all_results,       \* the list all_results
    ELEVENLABS_WEBHOOK_SECRET,  \* Config.ELEVENLABS_WEBHOOK_SECRET
    hookPc,            \* position of call_complete_webhook
    hookReq,           \* the request: its body, its ElevenLabs-Signature header,
                       \* and the notification channels the analysis gave
    hookStatus,        \* the status code of the response, 0 before it is made
    hookEffects        \* the side effects of the webhook, in order

sessionVars == <<elevenlabs_ws, elevenlabs_closed, stream_sid, call_sid,
                 conversation_id, client_name, phone_number>>
aiVars  == <<aiState, aiCloseKind, aiIn, aiOut, aiCloseCalls>>
telVars == <<telIn, telOut, telClient, telApp, telPeerGone, telCloseCalls>>
envVars == <<telSupplied, aiSupplied, sendFaults>>
histVars == <<mediaConsumed, telReads, links, setupFailed, handleResult>>
pcVars  == <<hPc, elPc, twPc>>
ghostVars == <<startsRead, aiClosedBy>>
logVars == <<parseErrors, stopAt, audioEligible, aiRead>>
cfgVars == <<ELEVENLABS_API_KEY, ELEVENLABS_AGENT_ID>>
acqVars == <<cfgVars, httpRequests, httpStatus, setupError>>
bridgeVars == <<pcVars, sessionVars, aiVars, telVars, envVars, histVars,
                ghostVars, logVars, acqVars>>

\* no stop frame has been read
NoStop == [seen |-> FALSE, reads |-> 0, sends |-> 0, open |-> FALSE]
dashVars == <<connections, locked, obPc, bcPc, snapshot, sendPc, received,
              discardCalls, dashErrors, bcResult>>
batchVars == <<bPc, call_requests, batch_size, batch_num, callState,
               all_results>>
svcVars == <<call_metadata, opLog, batchVars, ELEVENLABS_WEBHOOK_SECRET,
             hookPc, hookReq, hookStatus, hookEffects>>
vars == <<bridgeVars, dashVars, svcVars>>

\* the dashboard websockets and the broadcast() calls
Observer(n) == "w" \o ToString(n)
WS == {Observer(n) : n \in 1..MaxObservers}
Broadcast(n) == "b" \o ToString(n)
BC == {Broadcast(n) : n \in 1..MaxBroadcasts}

\* what os.getenv can give for a credential: unset, empty or a value
EnvValues(v) == {None, "", v}

\* status codes the provider may answer with
HttpStatuses == {200, 204, 401, 500}

\* the bridge before handle() runs and the dashboard manager after __init__
BridgeInit ==
    /\ hPc = "setup" /\ elPc = "idle" /\ twPc = "idle"
    /\ elevenlabs_ws = None /\ elevenlabs_closed = FALSE
    /\ stream_sid = None /\ call_sid = None /\ conversation_id = None
    /\ client_name = "" /\ phone_number = ""
    /\ aiState = "none" /\ aiCloseKind = None
    /\ aiIn = <<>> /\ aiOut = <<>> /\ aiCloseCalls = 0
    /\ telIn = <<>> /\ telOut = <<>>
    /\ telClient = "CONNECTED" /\ telApp = "CONNECTED"
    /\ telPeerGone = FALSE /\ telCloseCalls = 0
    /\ telSupplied = 0 /\ aiSupplied = 0 /\ sendFaults = 0
    /\ mediaConsumed = <<>> /\ telReads = 0 /\ links = {}
    /\ setupFailed = FALSE /\ handleResult = None
    /\ startsRead = <<>> /\ aiClosedBy = {}
    /\ parseErrors = {} /\ stopAt = NoStop /\ audioEligible = <<>>
    /\ aiRead = <<>>
    /\ ELEVENLABS_API_KEY \in EnvValues("xi-key")
    /\ ELEVENLABS_AGENT_ID \in EnvValues("agent-1")
    /\ httpRequests = 0 /\ httpStatus = 0 /\ setupError = None
    /\ connections = {} /\ locked = FALSE
    /\ obPc = [w \in WS |-> "new"]
    /\ bcPc = [b \in BC |-> "idle"]
    /\ snapshot = [b \in BC |-> {}]
    /\ sendPc = [b \in BC |-> [w \in WS |-> "none"]]
    /\ received = [w \in WS |-> [b \in BC |-> 0]]
    /\ discardCalls = [w \in WS |-> 0]
    /\ dashErrors = {}
    /\ bcResult = [b \in BC |-> None]

\* an ElevenLabs-Signature header: absent, or the text split at the commas
\* into its parts
Header(present, parts) == [present |-> present, parts |-> parts]



\* no initiate_batched_calls call has been made
BatchInit ==
    /\ bPc = "idle" /\ call_requests = <<>> /\ batch_size = 0
    /\ batch_num = 0 /\ callState = <<>> /\ all_results = <<>>

\* the application as it starts: the class-level dicts of the store empty,
\* no batch under way, no webhook request come, and the webhook secret as
\* os.getenv("ELEVENLABS_WEBHOOK_SECRET", "") gives it
WebhookInit ==
    /\ BridgeInit
    /\ call_metadata = {} /\ opLog = <<>>
    /\ BatchInit
    /\ ELEVENLABS_WEBHOOK_SECRET \in {"", "whsec"}
    /\ hookPc = "idle" /\ hookStatus = 0
    /\ hookReq = [body |-> None, signature |-> Header(FALSE, <<>>),
                  prefs |-> {}]
    /\ hookEffects = <<>>

\* the same with no webhook secret configured
Init == WebhookInit /\ ELEVENLABS_WEBHOOK_SECRET = ""


(* --------------------------- socket helpers --------------------------- *)
\* Outcome of elevenlabs_ws.send(): "ok", "cc" (ConnectionClosed is raised
\* because the connection has ended), "err" (another exception) or "err1000"
\* (another exception whose text holds "received 1000" or "then sent 1000").
AiSendOutcomes ==
    IF aiState = "open"
    THEN {"ok"} \cup (IF sendFaults < MaxSendFaults THEN {"err", "err1000"}
                                                    ELSE {})
    ELSE {"cc"}

\* the send raised something other than ConnectionClosed
Fault(o) == IF o \in {"err", "err1000"} THEN 1 ELSE 0

\* One send() call on the AI socket: the message and whether it went out.
AiSendRecord(kind, payload, eventId, init, outcome) ==
    [kind |-> kind, payload |-> payload, event_id |-> eventId, init |-> init,
     ok |-> (outcome = "ok")]

\* Outcome of elevenlabs_ws.close(): it returns ("ok"), or it raises because
\* writing the close frame on the open connection fails ("raise"); on a
\* connection that has already ended close() returns at once.
AiCloseOutcomes ==
    IF aiState = "open" /\ sendFaults < MaxSendFaults
    THEN {"ok", "raise"}
    ELSE {"ok"}

\* how the connection has ended once close() was called with this outcome
AiCloseKindAfter(o) ==
    IF aiState = "open" THEN (IF o = "ok" THEN "ok" ELSE "error")
    ELSE aiCloseKind

\* websocket.send_text() succeeds while the application has not closed the
\* socket and the peer is still there; otherwise it raises.
TelSendOk == telApp = "CONNECTED" /\ ~telPeerGone

TelSendRecord(ev, sid, payload) ==
    [event |-> ev, streamSid |-> sid, payload |-> payload, ok |-> TelSendOk]

(* ------------------------- message construction ----------------------- *)
\* mutant: the greeting has no fallback for a missing name
BuildFirstMessage_NoFallback(name) ==
    <<"Hey ", name, "! Umm, this is Monica from Dev Fusion.">>

\* mutant: the greeting never uses the client name
BuildFirstMessage_Generic(name) ==
    <<"Hey ", "there", "! Umm, this is Monica from Dev Fusion.">>

\* _build_first_message: the f-string, as its three parts (the names of the
\* model carry no surrounding whitespace, so strip() leaves them as they are)
BuildFirstMessage(name) ==
    <<"Hey ", IF name = "" THEN "there" ELSE name,
      "! Umm, this is Monica from Dev Fusion.">>

\* _build_dynamic_variables
BuildDynamicVariables(name, phone) ==
    [client_name |-> IF Truthy(name) THEN name ELSE None,
     phone_number |-> IF Truthy(phone) THEN phone ELSE None]

\* init_payload of _initialize_conversation_context
InitPayload(name, phone) ==
    [first_message |-> BuildFirstMessage(name),
     dynamic_variables |-> BuildDynamicVariables(name, phone)]

NoInit == [first_message |-> <<>>,
           dynamic_variables |-> [client_name |-> None, phone_number |-> None]]

\* {"user_audio_chunk": payload}
AudioMessage(payload, outcome) ==
    AiSendRecord("user_audio_chunk", payload, 0, NoInit, outcome)

\* {"type": "pong", "event_id": event_id}
PongResponse(event_id, outcome) ==
    AiSendRecord("pong", None, event_id, NoInit, outcome)

\* {"type": "conversation_initiation_client_data", ...}
InitMessage(name, phone, outcome) ==
    AiSendRecord("conversation_initiation_client_data", None, 0,
                 InitPayload(name, phone), outcome)

(* ------------------------------ guards -------------------------------- *)
\* mutant: the media branch forgets the closed flag
MediaGate_NoFlag(ws, closed) == Truthy(ws)

\* mutant: the media branch also waits for the stream id
MediaGate_NeedsStream(ws, closed) ==
    Truthy(ws) /\ ~closed /\ Truthy(stream_sid)

\* `if self.elevenlabs_ws and not self.elevenlabs_closed` of the media branch
MediaGate(ws, closed) == Truthy(ws) /\ ~closed

\* mutant: the stop branch never closes the AI socket
StopGate_Never(ws, closed) == FALSE

\* `if self.elevenlabs_ws and not self.elevenlabs_closed` of the stop branch
StopGate(ws, closed) == Truthy(ws) /\ ~closed

\* mutant: _cleanup closes the AI socket whenever it was opened
CleanupGate_NoFlag(ws, closed) == Truthy(ws)

\* `if self.elevenlabs_ws and not self.elevenlabs_closed` of _cleanup
CleanupGate(ws, closed) == Truthy(ws) /\ ~closed

\* `if custom_params: ... if self.elevenlabs_ws:` of the start branch
InitGate(hasParams, ws) == hasParams /\ Truthy(ws)

\* `if event_id:` of the ping branch
PongGate(event_id) == TruthyInt(event_id)

\* mutant: the interruption branch does not test the stream id
ClearGate_Always(sid) == TRUE

\* `if self.stream_sid:` of the interruption branch
ClearGate(sid) == Truthy(sid)

\* mutant: the audio branch does not test the stream id
AudioGate_NoStream(payload, sid) == Truthy(payload)

\* `if audio_base64 and self.stream_sid:` of the audio branch
AudioGate(payload, sid) == Truthy(payload) /\ Truthy(sid)

\* mutant: audio_event.audio_base_64 is preferred
AudioPayload_PrefersEvent(m) ==
    IF Truthy(m.audio_base_64) THEN m.audio_base_64
    ELSE IF Truthy(m.chunk) THEN m.chunk
    ELSE None

\* the payload the audio branch picks: audio.chunk when truthy, else
\* audio_event.audio_base_64 when truthy, else None
AudioPayload(m) ==
    IF Truthy(m.chunk) THEN m.chunk
    ELSE IF Truthy(m.audio_base_64) THEN m.audio_base_64
    ELSE None

(* --------------------------- get_signed_url --------------------------- *)
\* mutant: the configuration is accepted when either credential is set
ValidConfig_EitherSet(key, agent) == Truthy(key) \/ Truthy(agent)

\* Config.validate_elevenlabs_config does not raise:
\* `not cls.ELEVENLABS_API_KEY or not cls.ELEVENLABS_AGENT_ID` is false
ValidConfig(key, agent) == Truthy(key) /\ Truthy(agent)

\* `response.status_code != 200` is false
StatusOk(status) == status = 200

\* get_signed_url: validate_elevenlabs_config raises ValueError before any
\* request is made; _setup_elevenlabs re-raises, handle() goes to finally.
ValidateFails ==
    /\ hPc = "setup"
    /\ ~ValidConfig(ELEVENLABS_API_KEY, ELEVENLABS_AGENT_ID)
    /\ setupError' = "ValueError"
    /\ setupFailed' = TRUE
    /\ hPc' = "cleanup"
    /\ UNCHANGED <<elPc, twPc, sessionVars, aiVars, telVars, envVars,
                   mediaConsumed, telReads, links, handleResult, ghostVars,
                   cfgVars, httpRequests, httpStatus>>
    /\ UNCHANGED dashVars
    /\ UNCHANGED logVars
    /\ UNCHANGED svcVars

\* get_signed_url: the one client.get(); the provider answers with a status
\* or not at all (the 30 s timeout or a transport error raises). A status
\* other than 200 raises Exception("Failed to get signed URL: ...").
GetSignedUrl ==
    /\ hPc = "setup"
    /\ ValidConfig(ELEVENLABS_API_KEY, ELEVENLABS_AGENT_ID)
    /\ httpRequests' = httpRequests + 1
    /\ \E st \in HttpStatuses \cup {0} :
         /\ httpStatus' = st
         /\ IF st # 0 /\ StatusOk(st)
            THEN /\ hPc' = "connect"
                 /\ UNCHANGED <<setupError, setupFailed>>
            ELSE /\ setupError' = IF st = 0 THEN "TransportError"
                                            ELSE "UpstreamError"
                 /\ setupFailed' = TRUE
                 /\ hPc' = "cleanup"
    /\ UNCHANGED <<elPc, twPc, sessionVars, aiVars, telVars, envVars,
                   mediaConsumed, telReads, links, handleResult, ghostVars,
                   cfgVars>>
    /\ UNCHANGED dashVars
    /\ UNCHANGED logVars
    /\ UNCHANGED svcVars

(* ------------------------------ handle() ------------------------------ *)
\* websockets.connect succeeds within the timeout; _handle_connection starts
\* both loops.
SetupOk ==
    /\ hPc = "connect"
    /\ elevenlabs_ws' = "ws"
    /\ aiState' = "open"
    /\ hPc' = "relay" /\ elPc' = "recv" /\ twPc' = "top"
    /\ UNCHANGED <<elevenlabs_closed, stream_sid, call_sid, conversation_id,
                   client_name, phone_number, aiCloseKind, aiIn, aiOut,
                   aiCloseCalls, telVars, envVars, histVars>>
    /\ UNCHANGED <<ghostVars, acqVars>>
    /\ UNCHANGED dashVars
    /\ UNCHANGED logVars
    /\ UNCHANGED svcVars

\* mutant: the setup error is swallowed and the relay starts anyway
SetupFail_StartsRelay ==
    /\ hPc = "connect"
    /\ setupFailed' = TRUE
    /\ setupError' = "ConnectError"
    /\ hPc' = "relay" /\ elPc' = "recv" /\ twPc' = "top"
    /\ UNCHANGED <<sessionVars, aiVars, telVars, envVars,
                   mediaConsumed, telReads, links, handleResult>>
    /\ UNCHANGED <<ghostVars, cfgVars, httpRequests, httpStatus>>
    /\ UNCHANGED dashVars
    /\ UNCHANGED logVars
    /\ UNCHANGED svcVars

\* websockets.connect raises or wait_for times out: _setup_elevenlabs
\* re-raises, handle() catches and goes to its finally.
SetupFail ==
    /\ hPc = "connect"
    /\ setupFailed' = TRUE
    /\ setupError' = "ConnectError"
    /\ hPc' = "cleanup"
    /\ UNCHANGED <<elPc, twPc, sessionVars, aiVars, telVars, envVars,
                   mediaConsumed, telReads, links, handleResult>>
    /\ UNCHANGED <<ghostVars, cfgVars, httpRequests, httpStatus>>
    /\ UNCHANGED dashVars
    /\ UNCHANGED logVars
    /\ UNCHANGED svcVars

\* mutant: the wait returns as soon as one loop has returned
GatherDone_FirstCompleted ==
    /\ hPc = "relay"
    /\ elPc = "done" \/ twPc = "done"
    /\ hPc' = "cleanup"
    /\ UNCHANGED <<elPc, twPc, sessionVars, aiVars, telVars, envVars, histVars>>
    /\ UNCHANGED ghostVars
    /\ UNCHANGED acqVars
    /\ UNCHANGED dashVars
    /\ UNCHANGED logVars
    /\ UNCHANGED svcVars

\* asyncio.gather returns once both loops have returned.
GatherDone ==
    /\ hPc = "relay"
    /\ elPc = "done" /\ twPc = "done"
    /\ hPc' = "cleanup"
    /\ UNCHANGED <<elPc, twPc, sessionVars, aiVars, telVars, envVars, histVars>>
    /\ UNCHANGED ghostVars
    /\ UNCHANGED acqVars
    /\ UNCHANGED dashVars
    /\ UNCHANGED logVars
    /\ UNCHANGED svcVars

\* mutant: _cleanup returns early when there is no AI socket to close
CleanupNext_EarlyReturn(gate) == IF gate THEN "cleanup_tel" ELSE "done"

\* after the first try block of _cleanup comes the second one
CleanupNext(gate) == "cleanup_tel"

\* _cleanup, first try block: close the AI socket unless it is unset or
\* marked closed; an exception of close() is swallowed by the bare except.
Cleanup ==
    /\ hPc = "cleanup"
    /\ IF CleanupGate(elevenlabs_ws, elevenlabs_closed)
       THEN \E o \in AiCloseOutcomes :
              /\ aiCloseCalls' = aiCloseCalls + 1
              /\ aiClosedBy' = aiClosedBy \cup {"cleanup"}
              /\ aiState' = "closed"
              /\ aiCloseKind' = AiCloseKindAfter(o)
              /\ elevenlabs_closed' = (o = "ok")
              /\ sendFaults' = sendFaults + (IF o = "raise" THEN 1 ELSE 0)
       ELSE UNCHANGED <<aiCloseCalls, aiClosedBy, aiState, aiCloseKind,
                        elevenlabs_closed, sendFaults>>
    /\ hPc' = CleanupNext(CleanupGate(elevenlabs_ws, elevenlabs_closed))
    /\ UNCHANGED <<elPc, twPc, elevenlabs_ws, stream_sid, call_sid,
                   conversation_id, client_name, phone_number, aiIn, aiOut,
                   telVars, telSupplied, aiSupplied, histVars, startsRead>>
    /\ UNCHANGED acqVars
    /\ UNCHANGED dashVars
    /\ UNCHANGED logVars
    /\ UNCHANGED svcVars

\* _cleanup, second try block: close the telephony socket (an exception,
\* as when the socket was closed before, is swallowed); handle() returns.
CleanupTel ==
    /\ hPc = "cleanup_tel"
    /\ telCloseCalls' = telCloseCalls + 1
    /\ telApp' = "DISCONNECTED"
    /\ hPc' = "done"
    /\ handleResult' = "returned"
    /\ UNCHANGED <<elPc, twPc, sessionVars, aiVars,
                   telIn, telOut, telClient, telPeerGone, envVars,
                   mediaConsumed, telReads, links, setupFailed, ghostVars>>
    /\ UNCHANGED acqVars
    /\ UNCHANGED dashVars
    /\ UNCHANGED logVars
    /\ UNCHANGED svcVars

(* --------------------- _handle_twilio_messages ------------------------ *)
\* top of `while True`: `if self.elevenlabs_closed: break`, else the loop
\* calls receive_text() and waits.
TwTop ==
    /\ twPc = "top"
    /\ twPc' = IF elevenlabs_closed THEN "done" ELSE "recv"
    /\ UNCHANGED <<hPc, elPc, sessionVars, aiVars, telVars, envVars, histVars>>
    /\ UNCHANGED ghostVars
    /\ UNCHANGED acqVars
    /\ UNCHANGED dashVars
    /\ UNCHANGED logVars
    /\ UNCHANGED svcVars

\* receive_text() returns the next frame
TwTakes(ev) ==
    /\ twPc = "recv"
    /\ telIn # <<>>
    /\ Head(telIn).event = ev
    /\ telIn' = Tail(telIn)
    /\ telReads' = telReads + 1

\* mutant: only the first start frame sets the stream id
RecordStreamSid_FirstWins(old, new) == IF old = None THEN new ELSE old

\* `self.stream_sid = data["start"]["streamSid"]`
RecordStreamSid(old, new) == new

\* mutant: the start branch replays the AI messages dropped so far
StartReplay_Buffered(read, sid) ==
    LET d == SelectSeq(read, LAMBDA r : r.sid = None)
    IN [i \in 1..Len(d) |->
          IF d[i].type = "audio"
          THEN TelSendRecord("media", sid, d[i].chunk)
          ELSE TelSendRecord("clear", sid, None)]

\* the send_text() calls of the start branch: it makes none, nothing the AI
\* loop has read is kept for later
StartReplay(read, sid) == <<>>

\* event == "start"
TwStart ==
    /\ TwTakes("start")
    /\ ~Malformed(Head(telIn))
    /\ LET f == Head(telIn)
           name  == IF f.hasParams THEN f.client_name ELSE client_name
           phone == IF f.hasParams THEN f.phone_number ELSE phone_number
       IN /\ stream_sid' = RecordStreamSid(stream_sid, f.streamSid)
          /\ call_sid' = f.callSid
          /\ startsRead' = Append(startsRead, f)
          /\ telOut' = telOut \o StartReplay(aiRead, f.streamSid)
          /\ UNCHANGED <<aiClosedBy, logVars>>
          /\ client_name' = name
          /\ phone_number' = phone
          /\ IF InitGate(f.hasParams, elevenlabs_ws)
             THEN \E o \in AiSendOutcomes :
                    /\ aiOut' = Append(aiOut, InitMessage(name, phone, o))
                    /\ sendFaults' = sendFaults + Fault(o)
             ELSE UNCHANGED <<aiOut, sendFaults>>
    /\ twPc' = "top"
    /\ UNCHANGED <<hPc, elPc, elevenlabs_ws, elevenlabs_closed, conversation_id,
                   aiState, aiCloseKind, aiIn, aiCloseCalls,
                   telClient, telApp, telPeerGone, telCloseCalls,
                   telSupplied, aiSupplied,
                   mediaConsumed, links, setupFailed, handleResult>>
    /\ UNCHANGED acqVars
    /\ UNCHANGED dashVars
    /\ UNCHANGED svcVars

\* mutant: every exception of the send marks the AI leg closed
MediaSendMarksClosed_AnyError(o) == o # "ok"

\* the except branches of the media send: ConnectionClosed, or another
\* exception with "received 1000" or "then sent 1000" in its text, sets
\* elevenlabs_closed and breaks; any other exception is only logged
MediaSendMarksClosed(o) == o \in {"cc", "err1000"}

\* event == "media"
TwMedia ==
    /\ TwTakes("media")
    /\ LET f == Head(telIn)
       IN /\ mediaConsumed' = Append(mediaConsumed, f.payload)
          /\ IF MediaGate(elevenlabs_ws, elevenlabs_closed)
             THEN \E o \in AiSendOutcomes :
                    /\ aiOut' = Append(aiOut, AudioMessage(f.payload, o))
                    /\ sendFaults' = sendFaults + Fault(o)
                    /\ elevenlabs_closed' = MediaSendMarksClosed(o)
                    /\ twPc' = IF MediaSendMarksClosed(o) THEN "done"
                                                           ELSE "top"
             ELSE /\ twPc' = "top"
                  /\ UNCHANGED <<aiOut, sendFaults, elevenlabs_closed>>
    /\ UNCHANGED <<hPc, elPc, elevenlabs_ws, stream_sid, call_sid,
                   conversation_id, client_name, phone_number,
                   aiState, aiCloseKind, aiIn, aiCloseCalls,
                   telOut, telClient, telApp, telPeerGone, telCloseCalls,
                   telSupplied, aiSupplied,
                   links, setupFailed, handleResult>>
    /\ UNCHANGED ghostVars
    /\ UNCHANGED acqVars
    /\ UNCHANGED dashVars
    /\ UNCHANGED logVars
    /\ UNCHANGED svcVars

\* event == "stop": `await self.elevenlabs_ws.close()` is called; when it
\* raises, the bare except swallows the error and the loop breaks ...
TwStop ==
    /\ TwTakes("stop")
    /\ stopAt' = [seen |-> TRUE, reads |-> telReads + 1, sends |-> Len(aiOut),
                  open |-> (aiState = "open")]
    /\ UNCHANGED <<parseErrors, audioEligible, aiRead>>
    /\ IF StopGate(elevenlabs_ws, elevenlabs_closed)
       THEN \E o \in AiCloseOutcomes :
              /\ aiCloseCalls' = aiCloseCalls + 1
              /\ aiClosedBy' = aiClosedBy \cup {"stop"}
              /\ aiState' = "closed"
              /\ aiCloseKind' = AiCloseKindAfter(o)
              /\ sendFaults' = sendFaults + (IF o = "raise" THEN 1 ELSE 0)
              /\ twPc' = IF o = "ok" THEN "closing" ELSE "done"
       ELSE /\ twPc' = "done"
            /\ UNCHANGED <<aiCloseCalls, aiClosedBy, aiState, aiCloseKind,
                           sendFaults>>
    /\ UNCHANGED <<hPc, elPc, sessionVars, aiIn, aiOut,
                   telOut, telClient, telApp, telPeerGone, telCloseCalls,
                   telSupplied, aiSupplied,
                   mediaConsumed, links, setupFailed, handleResult, startsRead>>
    /\ UNCHANGED acqVars
    /\ UNCHANGED dashVars
    /\ UNCHANGED svcVars

\* ... and when it returns: `self.elevenlabs_closed = True`, `break`
TwStopClosed ==
    /\ twPc = "closing"
    /\ elevenlabs_closed' = TRUE
    /\ twPc' = "done"
    /\ UNCHANGED <<hPc, elPc, elevenlabs_ws, stream_sid, call_sid,
                   conversation_id, client_name, phone_number,
                   aiVars, telVars, envVars, histVars>>
    /\ UNCHANGED ghostVars
    /\ UNCHANGED acqVars
    /\ UNCHANGED dashVars
    /\ UNCHANGED logVars
    /\ UNCHANGED svcVars

\* mutant: an unrecognized event ends the loop
TwAfterOther_Exits(pc) == "done"

\* no branch of the if/elif chain matches: the body of `while True` ends and
\* the loop starts over
TwAfterOther(pc) == "top"

\* any other event, or none: no branch matches
TwOther ==
    /\ twPc = "recv"
    /\ telIn # <<>>
    /\ Head(telIn).event \notin {"start", "media", "stop"}
    /\ ~Malformed(Head(telIn))
    /\ telIn' = Tail(telIn)
    /\ telReads' = telReads + 1
    /\ twPc' = TwAfterOther(twPc)
    /\ UNCHANGED <<hPc, elPc, sessionVars, aiVars,
                   telOut, telClient, telApp, telPeerGone, telCloseCalls,
                   envVars, mediaConsumed, links, setupFailed, handleResult>>
    /\ UNCHANGED ghostVars
    /\ UNCHANGED acqVars
    /\ UNCHANGED dashVars
    /\ UNCHANGED logVars
    /\ UNCHANGED svcVars

\* mutant: the exception leaves the coroutine
TwAfterError_Raises(pc) == "raised"

\* an exception raised in the body of `while True` outside the inner try of
\* the media branch reaches the outer `except Exception`, which logs: the
\* coroutine returns
TwAfterError(pc) == "done"

\* json.loads(message) raises for text that is not JSON, data["start"]
\* raises KeyError for a start frame without its fields
TwBadFrame ==
    /\ twPc = "recv"
    /\ telIn # <<>>
    /\ Malformed(Head(telIn))
    /\ telIn' = Tail(telIn)
    /\ telReads' = telReads + 1
    /\ parseErrors' = parseErrors \cup {"tel"}
    /\ twPc' = TwAfterError(twPc)
    /\ UNCHANGED <<hPc, elPc, sessionVars, aiVars,
                   telOut, telClient, telApp, telPeerGone, telCloseCalls,
                   envVars, mediaConsumed, links, setupFailed, handleResult,
                   ghostVars, stopAt, audioEligible, aiRead, acqVars, dashVars>>
    /\ UNCHANGED svcVars

\* mutant: the loop calls receive_text() again after the disconnect
TwAfterDisconnect_Retries(pc) == "recv"

\* `except WebSocketDisconnect: pass` is outside `while True`: the coroutine
\* returns
TwAfterDisconnect(pc) == "done"

\* receive_text() raises WebSocketDisconnect (the peer left, or the socket
\* was closed by the other loop): `except WebSocketDisconnect: pass`
TwDisconnect ==
    /\ twPc = "recv"
    /\ telIn = <<>>
    /\ telPeerGone \/ telApp = "DISCONNECTED"
    /\ telClient' = "DISCONNECTED"
    /\ twPc' = TwAfterDisconnect(twPc)
    /\ UNCHANGED <<hPc, elPc, sessionVars, aiVars,
                   telIn, telOut, telApp, telPeerGone, telCloseCalls,
                   envVars, histVars>>
    /\ UNCHANGED ghostVars
    /\ UNCHANGED acqVars
    /\ UNCHANGED dashVars
    /\ UNCHANGED logVars
    /\ UNCHANGED svcVars

(* -------------------- _handle_elevenlabs_messages --------------------- *)
\* `async for message in self.elevenlabs_ws` yields the next message
ElTakes(type) ==
    /\ elPc = "recv"
    /\ aiIn # <<>>
    /\ Head(aiIn).type = type
    /\ aiIn' = Tail(aiIn)

\* msg_type == "ping": a pong when event_id is truthy; otherwise the message
\* falls through to _process_elevenlabs_message, where no branch matches.
\* An exception of send() is caught by the inner `except Exception`.
ElPing ==
    /\ ElTakes("ping")
    /\ LET m == Head(aiIn)
       IN IF PongGate(m.event_id)
          THEN \E o \in AiSendOutcomes :
                 /\ aiOut' = Append(aiOut, PongResponse(m.event_id, o))
                 /\ sendFaults' = sendFaults + Fault(o)
          ELSE UNCHANGED <<aiOut, sendFaults>>
    /\ UNCHANGED <<pcVars, sessionVars, aiState, aiCloseKind, aiCloseCalls,
                   telVars, telSupplied, aiSupplied, histVars>>
    /\ UNCHANGED ghostVars
    /\ UNCHANGED acqVars
    /\ UNCHANGED dashVars
    /\ UNCHANGED logVars
    /\ UNCHANGED svcVars

\* mutant: the parse error ends the loop
ElAfterError_Exits(pc) == "done"

\* the inner `except json.JSONDecodeError` / `except Exception` log and the
\* `async for` goes on to the next message
ElAfterError(pc) == "recv"

\* json.loads(message) raises JSONDecodeError
ElBadMessage ==
    /\ ElTakes("<not json>")
    /\ parseErrors' = parseErrors \cup {"ai"}
    /\ elPc' = ElAfterError(elPc)
    /\ UNCHANGED <<hPc, twPc, sessionVars, aiState, aiCloseKind, aiOut,
                   aiCloseCalls, telVars, envVars, histVars,
                   ghostVars, stopAt, audioEligible, aiRead, acqVars, dashVars>>
    /\ UNCHANGED svcVars

(* ----------------- CallRecordService: correlation store ---------------- *)
\* The two class-level dicts are sets of entries with one entry per key:
\* _call_metadata holds [call_sid, client_name, phone_number] records and
\* _conversation_to_call holds <<conversation_id, call_sid>> pairs.

\* store_call_metadata: `_call_metadata[call_sid] = {...}`
StoreCallMetadata(md, call, name, phone) ==
    {m \in md : m.call_sid # call}
       \cup {[call_sid |-> call, client_name |-> name, phone_number |-> phone]}

\* link_conversation_to_call: `_conversation_to_call[conversation_id] = call_sid`
LinkConversationToCall(lk, conv, call) ==
    {p \in lk : p[1] # conv} \cup {<<conv, call>>}

\* `_conversation_to_call.get(conversation_id)` when it is truthy: the set
\* holding that call id, empty when there is none
LinkedCall(lk, conv) == {p[2] : p \in {q \in lk : q[1] = conv /\ Truthy(q[2])}}

\* get_call_metadata_by_conversation: the metadata dict as a set holding one
\* [client_name, phone_number] record, the empty set for `{}`
GetCallMetadataByConversation(md, lk, conv) ==
    {[client_name |-> m.client_name, phone_number |-> m.phone_number] :
        m \in {x \in md : x.call_sid \in LinkedCall(lk, conv)}}

\* mutant: cleanup removes the link and keeps the metadata
CleanupCallMetadata_KeepsMetadata(md, lk, conv) ==
    [md |-> md, lk |-> {p \in lk : p[1] # conv}]

\* cleanup_call_metadata: both pops, when the conversation is linked
CleanupCallMetadata(md, lk, conv) ==
    IF LinkedCall(lk, conv) # {}
    THEN [md |-> {m \in md : m.call_sid \notin LinkedCall(lk, conv)},
          lk |-> {p \in lk : p[1] # conv}]
    ELSE [md |-> md, lk |-> lk]

\* _process_elevenlabs_message, msg_type == "conversation_initiation_metadata"
ElMetadata ==
    /\ ElTakes("conversation_initiation_metadata")
    /\ LET m == Head(aiIn)
       IN IF Truthy(m.conversation_id)
          THEN /\ conversation_id' = m.conversation_id
               /\ links' = IF Truthy(call_sid)
                           THEN LinkConversationToCall(links,
                                       m.conversation_id, call_sid)
                           ELSE links
          ELSE UNCHANGED <<conversation_id, links>>
    /\ UNCHANGED <<pcVars, elevenlabs_ws, elevenlabs_closed, stream_sid,
                   call_sid, client_name, phone_number,
                   aiState, aiCloseKind, aiOut, aiCloseCalls,
                   telVars, envVars,
                   mediaConsumed, telReads, setupFailed, handleResult>>
    /\ UNCHANGED ghostVars
    /\ UNCHANGED acqVars
    /\ UNCHANGED dashVars
    /\ UNCHANGED logVars
    /\ UNCHANGED svcVars

\* mutant: a failed send_text() ends the AI loop
ElAfterSend_FailureExits(ok) == IF ok THEN "recv" ELSE "done"

\* _process_elevenlabs_message has returned, or its send_text() raised and
\* the inner `except Exception` logged: the `async for` goes on
ElAfterSend(ok) == "recv"

\* what the AI loop has read: the message and the stream id of that moment
AiReadEntry(m, sid) ==
    [type |-> m.type, chunk |-> m.chunk, audio_base_64 |-> m.audio_base_64,
     sid |-> sid]

\* _process_elevenlabs_message, msg_type == "audio"; an exception of
\* send_text() is caught by the inner `except Exception` of the loop.
ElAudio ==
    /\ ElTakes("audio")
    /\ LET p == AudioPayload(Head(aiIn))
       IN /\ telOut' = IF AudioGate(p, stream_sid)
                       THEN Append(telOut,
                                   TelSendRecord("media", stream_sid, p))
                       ELSE telOut
          /\ audioEligible' = IF p # None /\ p # "" /\ stream_sid # None
                              THEN Append(audioEligible, p)
                              ELSE audioEligible
    /\ aiRead' = Append(aiRead, AiReadEntry(Head(aiIn), stream_sid))
    /\ UNCHANGED <<parseErrors, stopAt>>
    /\ elPc' = IF Len(telOut') > Len(telOut) THEN ElAfterSend(TelSendOk)
                                              ELSE "recv"
    /\ UNCHANGED <<hPc, twPc, sessionVars, aiState, aiCloseKind, aiOut,
                   aiCloseCalls, telIn, telClient, telApp, telPeerGone,
                   telCloseCalls, envVars, histVars>>
    /\ UNCHANGED ghostVars
    /\ UNCHANGED acqVars
    /\ UNCHANGED dashVars
    /\ UNCHANGED svcVars

\* _process_elevenlabs_message, msg_type == "interruption"
ElInterruption ==
    /\ ElTakes("interruption")
    /\ telOut' = IF ClearGate(stream_sid)
                 THEN Append(telOut, TelSendRecord("clear", stream_sid, None))
                 ELSE telOut
    /\ aiRead' = Append(aiRead, AiReadEntry(Head(aiIn), stream_sid))
    /\ elPc' = IF Len(telOut') > Len(telOut) THEN ElAfterSend(TelSendOk)
                                              ELSE "recv"
    /\ UNCHANGED <<hPc, twPc, sessionVars, aiState, aiCloseKind, aiOut,
                   aiCloseCalls, telIn, telClient, telApp, telPeerGone,
                   telCloseCalls, envVars, histVars>>
    /\ UNCHANGED ghostVars
    /\ UNCHANGED acqVars
    /\ UNCHANGED dashVars
    /\ UNCHANGED <<parseErrors, stopAt, audioEligible>>
    /\ UNCHANGED svcVars

\* mutant: the flag is assigned from the kind of close
FlagAfterAiEnd_Assigns(kind, flag) == kind = "error"

\* `except ConnectionClosed: self.elevenlabs_closed = True`; when the
\* iterator just stops the flag is left as it is
FlagAfterAiEnd(kind, flag) == IF kind = "error" THEN TRUE ELSE flag

\* The message stream ends.  After a close with code 1000 the iterator just
\* stops and the coroutine returns; otherwise ConnectionClosed is raised and
\* the handler sets the flag and sleeps.
ElEnds ==
    /\ elPc = "recv"
    /\ aiIn = <<>>
    /\ aiState = "closed"
    /\ elevenlabs_closed' = FlagAfterAiEnd(aiCloseKind, elevenlabs_closed)
    /\ elPc' = IF aiCloseKind = "error" THEN "grace" ELSE "done"
    /\ UNCHANGED <<hPc, twPc, elevenlabs_ws, stream_sid, call_sid,
                   conversation_id, client_name, phone_number,
                   aiVars, telVars, envVars, histVars>>
    /\ UNCHANGED ghostVars
    /\ UNCHANGED acqVars
    /\ UNCHANGED dashVars
    /\ UNCHANGED logVars
    /\ UNCHANGED svcVars

\* mutant: the stop frame is sent whatever the client state
GraceGate_Always(state) == TRUE

\* `if self.websocket.client_state.name == "CONNECTED"`
GraceGate(state) == state = "CONNECTED"

\* after `await asyncio.sleep(1)`: the stop frame, if the client is connected
ElGrace ==
    /\ elPc = "grace"
    /\ IF GraceGate(telClient)
       THEN /\ telOut' = Append(telOut, TelSendRecord("stop", None, None))
            /\ elPc' = IF TelSendOk THEN "closetel" ELSE "done"
       ELSE /\ elPc' = "done"
            /\ UNCHANGED telOut
    /\ UNCHANGED <<hPc, twPc, sessionVars, aiVars, telIn, telClient, telApp,
                   telPeerGone, telCloseCalls, envVars, histVars>>
    /\ UNCHANGED ghostVars
    /\ UNCHANGED acqVars
    /\ UNCHANGED dashVars
    /\ UNCHANGED logVars
    /\ UNCHANGED svcVars

\* `await self.websocket.close()` after the stop frame
ElCloseTel ==
    /\ elPc = "closetel"
    /\ telCloseCalls' = telCloseCalls + 1
    /\ telApp' = "DISCONNECTED"
    /\ elPc' = "done"
    /\ UNCHANGED <<hPc, twPc, sessionVars, aiVars, telIn, telOut, telClient,
                   telPeerGone, envVars, histVars>>
    /\ UNCHANGED ghostVars
    /\ UNCHANGED acqVars
    /\ UNCHANGED dashVars
    /\ UNCHANGED logVars
    /\ UNCHANGED svcVars

(* ---------------------------- environment ----------------------------- *)
\* the telephony peer sends a frame (the next one once the previous one was read)
EnvTelFrame ==
    /\ hPc # "done"
    /\ ~telPeerGone /\ telApp = "CONNECTED"
    /\ telSupplied + aiSupplied < MaxFrames
    /\ telIn = <<>>
    /\ \E f \in TelFrames(telSupplied) : telIn' = Append(telIn, f)
    /\ telSupplied' = telSupplied + 1
    /\ UNCHANGED <<pcVars, sessionVars, aiVars, telOut, telClient, telApp,
                   telPeerGone, telCloseCalls, aiSupplied, sendFaults, histVars>>
    /\ UNCHANGED ghostVars
    /\ UNCHANGED acqVars
    /\ UNCHANGED dashVars
    /\ UNCHANGED logVars
    /\ UNCHANGED svcVars

\* the telephony peer drops the connection
EnvTelDisconnect ==
    /\ hPc # "done"
    /\ ~telPeerGone
    /\ telPeerGone' = TRUE
    /\ UNCHANGED <<pcVars, sessionVars, aiVars, telIn, telOut, telClient,
                   telApp, telCloseCalls, envVars, histVars>>
    /\ UNCHANGED ghostVars
    /\ UNCHANGED acqVars
    /\ UNCHANGED dashVars
    /\ UNCHANGED logVars
    /\ UNCHANGED svcVars

\* the AI provider sends a message (the next one once the previous one was read)
EnvAiMsg ==
    /\ aiState = "open"
    /\ telSupplied + aiSupplied < MaxFrames
    /\ aiIn = <<>>
    /\ \E m \in AiMsgs(aiSupplied) : aiIn' = Append(aiIn, m)
    /\ aiSupplied' = aiSupplied + 1
    /\ UNCHANGED <<pcVars, sessionVars, aiState, aiCloseKind, aiOut,
                   aiCloseCalls, telVars, telSupplied, sendFaults, histVars>>
    /\ UNCHANGED ghostVars
    /\ UNCHANGED acqVars
    /\ UNCHANGED dashVars
    /\ UNCHANGED logVars
    /\ UNCHANGED svcVars

\* the AI connection ends from the provider's side
EnvAiClose ==
    /\ aiState = "open"
    /\ aiState' = "closed"
    /\ \E k \in CloseKinds : aiCloseKind' = k
    /\ UNCHANGED <<pcVars, sessionVars, aiIn, aiOut, aiCloseCalls,
                   telVars, envVars, histVars>>
    /\ UNCHANGED ghostVars
    /\ UNCHANGED acqVars
    /\ UNCHANGED dashVars
    /\ UNCHANGED logVars
    /\ UNCHANGED svcVars

(* --------------------------- specification ---------------------------- *)
HandleNext == ValidateFails \/ GetSignedUrl \/ SetupOk \/ SetupFail
                \/ GatherDone \/ Cleanup \/ CleanupTel
TwilioNext == TwTop \/ TwStart \/ TwMedia \/ TwStop \/ TwStopClosed
                \/ TwOther \/ TwBadFrame \/ TwDisconnect
ElevenNext == ElPing \/ ElBadMessage \/ ElMetadata \/ ElAudio
                \/ ElInterruption \/ ElEnds \/ ElGrace \/ ElCloseTel
BridgeNext == HandleNext \/ TwilioNext \/ ElevenNext
EnvNext == EnvTelFrame \/ EnvTelDisconnect \/ EnvAiMsg \/ EnvAiClose

Next == BridgeNext \/ EnvNext

Spec == Init /\ [][Next]_vars

\* The event loop runs every coroutine that is ready; the peers are free to
\* stay silent.
FairSpec == Spec /\ WF_vars(BridgeNext)

(* ---------------------- DashboardConnectionManager --------------------- *)
\* `async with self._lock` is taken in two steps, the acquisition and the
\* body with the release, which covers every scheduling of the lock.

\* mutant: set.remove, which raises KeyError for a missing element
Discard_Remove(S, w) ==
    [set |-> S \ {w}, raised |-> IF w \in S THEN {} ELSE {"KeyError"}]

\* self._connections.discard(websocket)
Discard(S, w) == [set |-> S \ {w}, raised |-> {}]

\* mutant: the sends go to the websockets registered at the time of the send
Recipients_Live(snap, live) == live

\* `for ws in connections`: the sends go to the copied list
Recipients(snap, live) == snap

\* mutant: gather does not wait for the unregistration of a failed send
SendFinished_NoWait(st) == st \in {"sent", "failed", "disc_locked", "removed"}

\* _send(ws) has returned: the send went out, or it failed and
\* disconnect(ws) has returned
SendFinished(st) == st \in {"sent", "removed"}

\* connect(): `await websocket.accept()`
ConnectAccept(w) ==
    /\ obPc[w] = "new"
    /\ obPc' = [obPc EXCEPT ![w] = "accepted"]
    /\ UNCHANGED <<connections, locked, bcPc, snapshot, sendPc, received,
                   discardCalls, dashErrors, bcResult, bridgeVars>>
    /\ UNCHANGED svcVars

\* connect(): the lock is acquired
ConnectAcquire(w) ==
    /\ obPc[w] = "accepted" /\ ~locked
    /\ locked' = TRUE
    /\ obPc' = [obPc EXCEPT ![w] = "add_locked"]
    /\ UNCHANGED <<connections, bcPc, snapshot, sendPc, received,
                   discardCalls, dashErrors, bcResult, bridgeVars>>
    /\ UNCHANGED svcVars

\* connect(): `self._connections.add(websocket)`, the lock is released and
\* the route waits in receive_text()
ConnectAdd(w) ==
    /\ obPc[w] = "add_locked"
    /\ connections' = connections \cup {w}
    /\ locked' = FALSE
    /\ obPc' = [obPc EXCEPT ![w] = "open"]
    /\ UNCHANGED <<bcPc, snapshot, sendPc, received,
                   discardCalls, dashErrors, bcResult, bridgeVars>>
    /\ UNCHANGED svcVars

\* the route's receive_text() raises (the client has gone); its finally
\* calls disconnect(websocket)
RouteEnds(w) ==
    /\ obPc[w] = "open"
    /\ obPc' = [obPc EXCEPT ![w] = "leaving"]
    /\ UNCHANGED <<connections, locked, bcPc, snapshot, sendPc, received,
                   discardCalls, dashErrors, bcResult, bridgeVars>>
    /\ UNCHANGED svcVars

\* disconnect() called by the route: the lock is acquired
DisconnectAcquire(w) ==
    /\ obPc[w] = "leaving" /\ ~locked
    /\ locked' = TRUE
    /\ obPc' = [obPc EXCEPT ![w] = "disc_locked"]
    /\ UNCHANGED <<connections, bcPc, snapshot, sendPc, received,
                   discardCalls, dashErrors, bcResult, bridgeVars>>
    /\ UNCHANGED svcVars

\* disconnect() called by the route: discard, release
DisconnectDiscard(w) ==
    /\ obPc[w] = "disc_locked"
    /\ connections' = Discard(connections, w).set
    /\ dashErrors' = dashErrors \cup Discard(connections, w).raised
    /\ discardCalls' = [discardCalls EXCEPT ![w] = @ + 1]
    /\ locked' = FALSE
    /\ obPc' = [obPc EXCEPT ![w] = "gone"]
    /\ UNCHANGED <<bcPc, snapshot, sendPc, received, bcResult, bridgeVars>>
    /\ UNCHANGED svcVars

\* broadcast(): the lock is acquired
BroadcastAcquire(b) ==
    /\ bcPc[b] = "idle" /\ ~locked
    /\ locked' = TRUE
    /\ bcPc' = [bcPc EXCEPT ![b] = "snap_locked"]
    /\ UNCHANGED <<connections, obPc, snapshot, sendPc, received,
                   discardCalls, dashErrors, bcResult, bridgeVars>>
    /\ UNCHANGED svcVars

\* mutant: the lock is kept while the sends are made
LockAfterCopy_Held(held) == held

\* the `async with self._lock` block of broadcast() ends after the copy,
\* before any send: the lock is released
LockAfterCopy(held) == FALSE

\* broadcast(): `connections = list(self._connections)`, release;
\* `if not connections: return`, else gather starts one _send per element
BroadcastSnapshot(b) ==
    /\ bcPc[b] = "snap_locked"
    /\ snapshot' = [snapshot EXCEPT ![b] = connections]
    /\ locked' = LockAfterCopy(locked)
    /\ IF connections = {}
       THEN /\ bcPc' = [bcPc EXCEPT ![b] = "done"]
            /\ bcResult' = [bcResult EXCEPT ![b] = "returned"]
       ELSE /\ bcPc' = [bcPc EXCEPT ![b] = "sending"]
            /\ UNCHANGED bcResult
    /\ UNCHANGED <<connections, obPc, sendPc, received,
                   discardCalls, dashErrors, bridgeVars>>
    /\ UNCHANGED svcVars

\* _send(ws): `await ws.send_text(message)` returns or raises
SendText(b, w) ==
    /\ bcPc[b] = "sending"
    /\ w \in Recipients(snapshot[b], connections)
    /\ sendPc[b][w] = "none"
    /\ \/ /\ received' = [received EXCEPT ![w][b] = @ + 1]
          /\ sendPc' = [sendPc EXCEPT ![b][w] = "sent"]
       \/ /\ sendPc' = [sendPc EXCEPT ![b][w] = "failed"]
          /\ UNCHANGED received
    /\ UNCHANGED <<connections, locked, obPc, bcPc, snapshot,
                   discardCalls, dashErrors, bcResult, bridgeVars>>
    /\ UNCHANGED svcVars

\* _send(ws), except branch: disconnect(ws) acquires the lock
SendDisconnectAcquire(b, w) ==
    /\ sendPc[b][w] = "failed" /\ ~locked
    /\ locked' = TRUE
    /\ sendPc' = [sendPc EXCEPT ![b][w] = "disc_locked"]
    /\ UNCHANGED <<connections, obPc, bcPc, snapshot, received,
                   discardCalls, dashErrors, bcResult, bridgeVars>>
    /\ UNCHANGED svcVars

\* _send(ws), except branch: disconnect(ws) discards and releases
SendDisconnectDiscard(b, w) ==
    /\ sendPc[b][w] = "disc_locked"
    /\ connections' = Discard(connections, w).set
    /\ dashErrors' = dashErrors \cup Discard(connections, w).raised
    /\ discardCalls' = [discardCalls EXCEPT ![w] = @ + 1]
    /\ locked' = FALSE
    /\ sendPc' = [sendPc EXCEPT ![b][w] = "removed"]
    /\ UNCHANGED <<obPc, bcPc, snapshot, received, bcResult, bridgeVars>>
    /\ UNCHANGED svcVars

\* `await asyncio.gather(..., return_exceptions=True)` returns once every
\* _send has returned; broadcast() returns
BroadcastDone(b) ==
    /\ bcPc[b] = "sending"
    /\ \A w \in Recipients(snapshot[b], connections) :
          SendFinished(sendPc[b][w])
    /\ bcPc' = [bcPc EXCEPT ![b] = "done"]
    /\ bcResult' = [bcResult EXCEPT ![b] = "returned"]
    /\ UNCHANGED <<connections, locked, obPc, snapshot, sendPc, received,
                   discardCalls, dashErrors, bridgeVars>>
    /\ UNCHANGED svcVars

RouteNext ==
    \E w \in WS : \/ ConnectAccept(w) \/ ConnectAcquire(w) \/ ConnectAdd(w)
                  \/ RouteEnds(w)
                  \/ DisconnectAcquire(w) \/ DisconnectDiscard(w)
BroadcastNext ==
    \E b \in BC : \/ BroadcastAcquire(b) \/ BroadcastSnapshot(b)
                  \/ BroadcastDone(b)
                  \/ \E w \in WS : \/ SendText(b, w)
                                   \/ SendDisconnectAcquire(b, w)
                                   \/ SendDisconnectDiscard(b, w)
DashNext == RouteNext \/ BroadcastNext

\* the dashboard fan-out on its own, no call being bridged
DashInit ==
    /\ Init
    /\ ValidConfig(ELEVENLABS_API_KEY, ELEVENLABS_AGENT_ID)

DashSpec == DashInit /\ [][DashNext]_vars

\* The event loop runs every coroutine that is ready: every step but the
\* departure of a dashboard client, who is free to stay.
DashFairSpec ==
    DashSpec
    /\ WF_vars(\/ \E w \in WS :
                     \/ ConnectAccept(w) \/ ConnectAcquire(w) \/ ConnectAdd(w)
                     \/ DisconnectAcquire(w) \/ DisconnectDiscard(w)
               \/ BroadcastNext)

(* ---------------- the correlation store on its own -------------------- *)
\* the conversation ids, call ids and client names the callers pass
ConvIds == {"conv1", "conv2"}
CallIds == {CallSid(0), CallSid(1)}

\* one call on the store: the operation, its arguments (None for those it
\* does not take) and, for the lookup, what it returned
StoreOp(op, conv, call, name, phone, result) ==
    [op |-> op, conversation_id |-> conv, call_sid |-> call,
     client_name |-> name, phone_number |-> phone, result |-> result]

\* what a call on the store leaves alone
storeFrame == <<pcVars, sessionVars, aiVars, telVars, envVars, mediaConsumed,
                telReads, setupFailed, handleResult, ghostVars, logVars,
                acqVars, dashVars, batchVars, ELEVENLABS_WEBHOOK_SECRET,
                hookPc, hookReq, hookStatus, hookEffects>>

\* await CallRecordService.store_call_metadata(call_sid, client_name, phone_number)
CallStore(call, name, phone) ==
    /\ Len(opLog) < MaxOps
    /\ call_metadata' = StoreCallMetadata(call_metadata, call, name, phone)
    /\ opLog' = Append(opLog, StoreOp("store", None, call, name, phone, {}))
    /\ UNCHANGED <<links, storeFrame>>

\* await CallRecordService.link_conversation_to_call(conversation_id, call_sid)
CallLink(conv, call) ==
    /\ Len(opLog) < MaxOps
    /\ links' = LinkConversationToCall(links, conv, call)
    /\ opLog' = Append(opLog, StoreOp("link", conv, call, None, None, {}))
    /\ UNCHANGED <<call_metadata, storeFrame>>

\* await CallRecordService.get_call_metadata_by_conversation(conversation_id)
CallLookup(conv) ==
    /\ Len(opLog) < MaxOps
    /\ opLog' = Append(opLog,
                  StoreOp("lookup", conv, None, None, None,
                     GetCallMetadataByConversation(call_metadata, links, conv)))
    /\ UNCHANGED <<call_metadata, links, storeFrame>>

\* await CallRecordService.cleanup_call_metadata(conversation_id)
CallCleanup(conv) ==
    /\ Len(opLog) < MaxOps
    /\ call_metadata' = CleanupCallMetadata(call_metadata, links, conv).md
    /\ links' = CleanupCallMetadata(call_metadata, links, conv).lk
    /\ opLog' = Append(opLog, StoreOp("cleanup", conv, None, None, None, {}))
    /\ UNCHANGED storeFrame

StoreNext ==
    \/ \E call \in CallIds : \E name \in {"Ann", ""} :
          CallStore(call, name, "555")
    \/ \E conv \in ConvIds : \E call \in CallIds : CallLink(conv, call)
    \/ \E conv \in ConvIds : CallLookup(conv)
    \/ \E conv \in ConvIds : CallCleanup(conv)

\* the store on its own: no call is bridged, no dashboard is connected
StoreSpec == Init /\ [][StoreNext]_vars

(* ------------------ TwilioService.initiate_batched_calls --------------- *)
\* the i-th request of the list: its number and client name
Request(i) == [to_number |-> "+1555" \o ToString(i),
               client_name |-> "client" \o ToString(i)]

\* `(len(call_requests) + batch_size - 1) // batch_size`
TotalBatches(n, bs) == (n + bs - 1) \div bs

\* `start_idx = batch_num * batch_size`
StartIdx(k, bs) == k * bs

\* mutant: the slice runs to the end of the list
EndIdx_WholeRest(k, bs, n) == n

\* `end_idx = min(start_idx + batch_size, len(call_requests))`
EndIdx(k, bs, n) ==
    IF StartIdx(k, bs) + bs < n THEN StartIdx(k, bs) + bs ELSE n

\* the positions (from 1) of `call_requests[start_idx:end_idx]`
BatchIndices(k, bs, n) == (StartIdx(k, bs) + 1)..EndIdx(k, bs, n)

\* what initiate_single_call returns for the i-th request: the success dict
\* with the SID of the call, or the failure dict of its except branch
SingleCallResult(i, st) ==
    [success |-> (st = "ok"),
     call_sid |-> IF st = "ok" THEN CallSid(i) ELSE None,
     to_number |-> call_requests[i].to_number,
     client_name |-> call_requests[i].client_name]

\* the list gather() returns for the batch: one result per request of the
\* slice, in the order of the slice
BatchResults(k, bs, n) ==
    [j \in 1..(EndIdx(k, bs, n) - StartIdx(k, bs)) |->
        SingleCallResult(StartIdx(k, bs) + j, callState[StartIdx(k, bs) + j])]

\* what a step of initiate_batched_calls leaves alone
batchFrame == <<bridgeVars, dashVars, call_metadata, opLog,
                ELEVENLABS_WEBHOOK_SECRET, hookPc, hookReq, hookStatus,
                hookEffects>>

\* initiate_batched_calls(call_requests, batch_size) is called:
\* `all_results = []`, total_batches is computed
InitiateBatchedCalls(n, bs) ==
    /\ bPc = "idle"
    /\ call_requests' = [i \in 1..n |-> Request(i)]
    /\ batch_size' = bs
    /\ callState' = [i \in 1..n |-> "pending"]
    /\ all_results' = <<>>
    /\ batch_num' = 0
    /\ bPc' = "loop"
    /\ UNCHANGED batchFrame

\* `for batch_num in range(total_batches)`: the next batch is sliced and
\* initiate_concurrent_calls hands its wrappers to gather()
BatchBegin ==
    /\ bPc = "loop"
    /\ batch_num < TotalBatches(Len(call_requests), batch_size)
    /\ bPc' = "gather"
    /\ UNCHANGED <<call_requests, batch_size, batch_num, callState,
                   all_results, batchFrame>>

\* initiate_single_call starts: `await self.initiate_call(...)`
CallStarts(i) ==
    /\ bPc = "gather"
    /\ i \in BatchIndices(batch_num, batch_size, Len(call_requests))
    /\ callState[i] = "pending"
    /\ callState' = [callState EXCEPT ![i] = "inflight"]
    /\ UNCHANGED <<bPc, call_requests, batch_size, batch_num, all_results,
                   batchFrame>>

\* initiate_call returns the call, or raises and the wrapper's except
\* branch builds the failure result
CallCompletes(i) ==
    /\ i \in DOMAIN callState
    /\ callState[i] = "inflight"
    /\ \E st \in {"ok", "failed"} : callState' = [callState EXCEPT ![i] = st]
    /\ UNCHANGED <<bPc, call_requests, batch_size, batch_num, all_results,
                   batchFrame>>

\* gather() returns once every wrapper has returned:
\* `all_results.extend(batch_results)`, then the sleep unless this was the
\* last batch
BatchGathered ==
    /\ bPc = "gather"
    /\ \A i \in BatchIndices(batch_num, batch_size, Len(call_requests)) :
          callState[i] \in {"ok", "failed"}
    /\ all_results' = all_results
                        \o BatchResults(batch_num, batch_size,
                                        Len(call_requests))
    /\ IF batch_num < TotalBatches(Len(call_requests), batch_size) - 1
       THEN bPc' = "sleep" /\ UNCHANGED batch_num
       ELSE bPc' = "loop" /\ batch_num' = batch_num + 1
    /\ UNCHANGED <<call_requests, batch_size, callState, batchFrame>>

\* `await asyncio.sleep(0.5)` returns: the next iteration
BatchSleep ==
    /\ bPc = "sleep"
    /\ bPc' = "loop"
    /\ batch_num' = batch_num + 1
    /\ UNCHANGED <<call_requests, batch_size, callState, all_results,
                   batchFrame>>

\* the range is exhausted: `return all_results`
BatchReturn ==
    /\ bPc = "loop"
    /\ batch_num >= TotalBatches(Len(call_requests), batch_size)
    /\ bPc' = "done"
    /\ UNCHANGED <<call_requests, batch_size, batch_num, callState,
                   all_results, batchFrame>>

BatchNext ==
    \/ \E n \in 0..MaxRequests : \E bs \in 1..MaxBatch :
          InitiateBatchedCalls(n, bs)
    \/ BatchBegin \/ BatchGathered \/ BatchSleep \/ BatchReturn
    \/ \E i \in 1..MaxRequests : CallStarts(i) \/ CallCompletes(i)

\* one initiate_batched_calls call on its own
BatchSpec == Init /\ [][BatchNext]_vars

(* ------------------------ call_complete_webhook ------------------------ *)
\* request bodies: two payloads that validate, one that does not parse
Bodies == {"payload-conv1", "payload-conv2", "<not json>"}

\* `elevenlabs_payload.data.conversation_id`
BodyConversation(b) == IF b = "payload-conv1" THEN "conv1" ELSE "conv2"

\* one part of the header: "key=value", or text without "=" (key "")
Part(key, value) == [key |-> key, value |-> value]

\* HMAC-SHA256(secret, timestamp + "." + payload).hexdigest(): a digest that
\* differs whenever the secret, the timestamp or the payload differs
Hmac(secret, timestamp, payload) ==
    "hmac(" \o secret \o "," \o timestamp \o "." \o payload \o ")"

\* the headers a request for this body may carry
Headers(body) ==
    {Header(FALSE, <<>>),
     Header(TRUE, <<>>),
     Header(TRUE, <<Part("", "garbage")>>),
     Header(TRUE, <<Part("t", "1700")>>),
     Header(TRUE, <<Part("t", ""), Part("v0", Hmac("whsec", "", body))>>),
     Header(TRUE, <<Part("t", "1700"), Part("v0", "deadbeef")>>),
     Header(TRUE, <<Part("t", "1700"),
                    Part("v0", Hmac("other", "1700", body))>>),
     Header(TRUE, <<Part("t", "1700"),
                    Part("v0", Hmac("whsec", "1700", "payload-other"))>>),
     Header(TRUE, <<Part("t", "1700"),
                    Part("v0", Hmac("whsec", "1700", body))>>)}

\* `parts.get(key)` after the loop over signature.split(','): the value of
\* the last part with this key, None when there is none
PartValue(parts, key) ==
    LET at == {i \in 1..Len(parts) : parts[i].key = key}
    IN IF at = {} THEN None
       ELSE parts[CHOOSE i \in at : \A j \in at : j <= i].value

\* mutant: a header of the right format is accepted
VerifyHmacSignature_FormatOnly(payload, signature, secret) ==
    /\ Truthy(PartValue(signature.parts, "t"))
    /\ Truthy(PartValue(signature.parts, "v0"))

\* verify_hmac_signature
VerifyHmacSignature(payload, signature, secret) ==
    LET timestamp == PartValue(signature.parts, "t")
        received_signature == PartValue(signature.parts, "v0")
    IN /\ Truthy(timestamp) /\ Truthy(received_signature)
       /\ Hmac(secret, timestamp, payload) = received_signature

\* what a step of the webhook leaves alone
hookFrame == <<pcVars, sessionVars, aiVars, telVars, envVars, mediaConsumed,
               telReads, setupFailed, handleResult, ghostVars, logVars,
               acqVars, dashVars, batchVars, ELEVENLABS_WEBHOOK_SECRET>>

\* the request arrives: `raw_body = await request.body()`
HookReceive(body, signature) ==
    /\ hookPc = "idle"
    /\ hookReq' = [body |-> body, signature |-> signature, prefs |-> {}]
    /\ hookPc' = "verify"
    /\ UNCHANGED <<hookStatus, hookEffects, call_metadata, links, opLog,
                   hookFrame>>

\* `if Config.ELEVENLABS_WEBHOOK_SECRET:` the two checks, each raising
\* HTTPException(401), which `except HTTPException: raise` passes on;
\* `not elevenlabs_signature` holds of an absent and of an empty header
HookVerify ==
    /\ hookPc = "verify"
    /\ IF /\ Truthy(ELEVENLABS_WEBHOOK_SECRET)
          /\ \/ ~hookReq.signature.present
             \/ hookReq.signature.parts = <<>>
             \/ ~VerifyHmacSignature(hookReq.body, hookReq.signature,
                                     ELEVENLABS_WEBHOOK_SECRET)
       THEN hookPc' = "done" /\ hookStatus' = 401
       ELSE hookPc' = "parse" /\ UNCHANGED hookStatus
    /\ UNCHANGED <<hookReq, hookEffects, call_metadata, links, opLog,
                   hookFrame>>

\* the payload is parsed and validated (a failure raises HTTPException(400)),
\* the stored metadata is looked up, and the transcript is analysed: the
\* analysis gives the notification channels, none when it fails
HookParse ==
    /\ hookPc = "parse"
    /\ IF hookReq.body \in {"payload-conv1", "payload-conv2"}
       THEN /\ opLog' = Append(opLog,
                  StoreOp("lookup", BodyConversation(hookReq.body), None,
                          None, None,
                          GetCallMetadataByConversation(call_metadata, links,
                              BodyConversation(hookReq.body))))
            /\ \E prefs \in SUBSET {"email", "whatsapp"} :
                  hookReq' = [hookReq EXCEPT !.prefs = prefs]
            /\ hookPc' = "upsert"
            /\ UNCHANGED hookStatus
       ELSE /\ hookPc' = "done" /\ hookStatus' = 400
            /\ UNCHANGED <<hookReq, opLog>>
    /\ UNCHANGED <<hookEffects, call_metadata, links, hookFrame>>

\* `record = await CallRecordService.upsert_call_record(payload)`; a
\* PyMongoError reaches the outer `except Exception`: HTTPException(500)
HookUpsert ==
    /\ hookPc = "upsert"
    /\ \/ /\ hookEffects' = Append(hookEffects, "upsert")
          /\ hookPc' = "notify"
          /\ UNCHANGED hookStatus
       \/ /\ hookPc' = "done" /\ hookStatus' = 500
          /\ UNCHANGED hookEffects
    /\ UNCHANGED <<hookReq, call_metadata, links, opLog, hookFrame>>

\* `await _send_post_call_notifications(payload, record)`: the sends for
\* the channels asked for, their errors swallowed, and the second upsert
\* when one of them went out
HookNotify ==
    /\ hookPc = "notify"
    /\ \E sent \in SUBSET hookReq.prefs :
          hookEffects' = hookEffects
             \o (IF "email" \in hookReq.prefs THEN <<"email">> ELSE <<>>)
             \o (IF "whatsapp" \in hookReq.prefs THEN <<"whatsapp">> ELSE <<>>)
             \o (IF sent # {} THEN <<"upsert">> ELSE <<>>)
    /\ hookPc' = "cleanup"
    /\ UNCHANGED <<hookReq, hookStatus, call_metadata, links, opLog,
                   hookFrame>>

\* `await CallRecordService.cleanup_call_metadata(conversation_id)`
HookCleanup ==
    /\ hookPc = "cleanup"
    /\ LET conv == BodyConversation(hookReq.body)
       IN /\ call_metadata' = CleanupCallMetadata(call_metadata, links, conv).md
          /\ links' = CleanupCallMetadata(call_metadata, links, conv).lk
          /\ opLog' = Append(opLog,
                         StoreOp("cleanup", conv, None, None, None, {}))
    /\ hookEffects' = Append(hookEffects, "cleanup")
    /\ hookPc' = "broadcast"
    /\ UNCHANGED <<hookReq, hookStatus, hookFrame>>

\* `await dashboard_manager.broadcast("call_completed", ...)`, no dashboard
\* being connected, and the response
HookBroadcast ==
    /\ hookPc = "broadcast"
    /\ hookEffects' = Append(hookEffects, "broadcast")
    /\ hookPc' = "done" /\ hookStatus' = 200
    /\ UNCHANGED <<hookReq, call_metadata, links, opLog, hookFrame>>

\* before the webhook comes, the call it reports was set up: its metadata
\* stored and its conversation linked
HookNext ==
    \/ /\ hookPc = "idle" /\ Len(opLog) < 2
       /\ \/ CallStore(CallSid(0), "Ann", "555")
          \/ CallLink("conv1", CallSid(0))
    \/ \E body \in Bodies : \E signature \in Headers(body) :
          HookReceive(body, signature)
    \/ HookVerify \/ HookParse \/ HookUpsert \/ HookNotify
    \/ HookCleanup \/ HookBroadcast

\* one webhook request, with the secret configured or not
WebhookSpec == WebhookInit /\ [][HookNext]_vars

(* ------------------------------ claims -------------------------------- *)
\* payloads of the audio-chunk sends made on the AI socket, in order
AudioChunksSent ==
    LET s == SelectSeq(aiOut, LAMBDA r : r.kind = "user_audio_chunk")
    IN [i \in 1..Len(s) |-> s[i].payload]

NoAiSendFailed == \A i \in 1..Len(aiOut) : aiOut[i].ok

\* stop frames that went out on the telephony socket
StopFramesSent ==
    Len(SelectSeq(telOut, LAMBDA r : r.event = "stop" /\ r.ok))

\* the telephony loop reads a frame with this event tag in this step
TwReads(ev) ==
    /\ twPc = "recv" /\ telIn # <<>> /\ Head(telIn).event = ev
    /\ telReads' = telReads + 1

\* the AI loop reads a message of this type in this step
ElReads(type) ==
    /\ elPc = "recv" /\ aiIn # <<>> /\ Head(aiIn).type = type
    /\ aiIn' = Tail(aiIn)

\* C1: while the closed flag is false and no send on the AI socket has
\* failed, the audio-chunk messages sent on the AI socket are exactly the
\* payloads of the media frames the telephony loop has read, in the same
\* order (none dropped, duplicated or batched).
C1_ForwardingPreservesOrder ==
    (~elevenlabs_closed /\ NoAiSendFailed) => AudioChunksSent = mediaConsumed

C1_Witness ==
    /\ Len(mediaConsumed) >= 2
    /\ ~elevenlabs_closed /\ NoAiSendFailed
    /\ AudioChunksSent = mediaConsumed

\* C2: once the closed flag is true, a media frame read by the telephony
\* loop makes no send on the AI socket.
C2_NoMediaSendOnceClosed ==
    [][(elevenlabs_closed /\ TwReads("media")) => aiOut' = aiOut]_vars

C2_Witness ==
    /\ elevenlabs_closed
    /\ Len(mediaConsumed) > Len(AudioChunksSent)

\* C3 (as claimed): once the closed flag is true, no send of any kind is
\* made on the AI socket.
C3_NoAiSendOnceClosed ==
    [][elevenlabs_closed => aiOut' = aiOut]_vars

\* C4: when the AI reader gets ConnectionClosed, the bridge sets the closed
\* flag, then after the grace delay sends the stop frame on the telephony
\* socket if its client state is CONNECTED, then closes the telephony
\* socket; at most one stop frame goes out; when the client state is not
\* CONNECTED no stop frame is sent, and a failed send ends the loop quietly.
C4_Order ==
    /\ (elPc = "recv" /\ elPc' # "recv") =>
          IF aiCloseKind = "error"
          THEN /\ elevenlabs_closed' /\ elPc' = "grace"
               /\ telOut' = telOut /\ telCloseCalls' = telCloseCalls
          ELSE elPc' = "done" /\ telOut' = telOut
    /\ (elPc = "grace" /\ elPc' # "grace") =>
          /\ elevenlabs_closed
          /\ telCloseCalls' = telCloseCalls
          /\ IF telClient = "CONNECTED"
             THEN /\ Len(telOut') = Len(telOut) + 1
                  /\ telOut'[Len(telOut')].event = "stop"
                  /\ elPc' = IF telOut'[Len(telOut')].ok THEN "closetel"
                                                          ELSE "done"
             ELSE telOut' = telOut /\ elPc' = "done"
    /\ (elPc = "closetel" /\ elPc' # "closetel") =>
          /\ telOut' = telOut
          /\ telCloseCalls' = telCloseCalls + 1
          /\ telApp' = "DISCONNECTED"
          /\ elPc' = "done"

C5_TelephonyDisconnectTearsDown ==
    (twPc = "done" /\ telClient = "DISCONNECTED" /\ telPeerGone) =>
        \/ hPc = "done" /\ aiState = "closed"
        \/ ENABLED BridgeNext

\* C6: after a setup failure no relay loop is started: no frame is read
\* from the telephony socket, nothing is sent on either socket, the AI
\* socket handle stays unset, handle() can always go on to its end, and at
\* its end the telephony socket has been closed by _cleanup.
C6_SetupFailureStartsNothing ==
    setupFailed =>
        /\ elPc = "idle" /\ twPc = "idle"
        /\ telReads = 0 /\ aiOut = <<>> /\ telOut = <<>>
        /\ elevenlabs_ws = None /\ aiState = "none" /\ aiCloseCalls = 0
        /\ hPc \in {"cleanup", "cleanup_tel", "done"}
        /\ hPc = "cleanup" => ENABLED Cleanup
        /\ hPc = "cleanup_tel" => ENABLED CleanupTel
        /\ hPc = "done" => telApp = "DISCONNECTED" /\ telCloseCalls = 1

C6_Witness ==
    setupFailed /\ hPc = "done" /\ telIn # <<>> /\ telApp = "DISCONNECTED"

\* C7 (as claimed): a setup failure is surfaced to the caller of handle().
C7_SetupFailureSurfaced ==
    (hPc = "done" /\ setupFailed) => handleResult = "raised"

\* C8: _cleanup runs only after both loops have returned, and the return of
\* one loop leaves the other loop where it is.
C8_CleanupAfterBothLoops ==
    /\ []((hPc \in {"cleanup", "cleanup_tel", "done"} /\ ~setupFailed)
             => (elPc = "done" /\ twPc = "done"))
    /\ [][/\ (elPc # "done" /\ elPc' = "done") => (twPc' = twPc /\ hPc' = hPc)
          /\ (twPc # "done" /\ twPc' = "done") => (elPc' = elPc /\ hPc' = hPc)
         ]_vars

C8_Witness ==
    /\ hPc = "relay" /\ twPc = "done" /\ elPc = "recv"
    /\ aiState = "open" /\ Len(aiOut) > 0 /\ aiOut[Len(aiOut)].kind = "pong"

\* C9 (as claimed): every ping read by the AI loop makes exactly one pong
\* send on the AI socket with the ping's event id, and no telephony send.
C9_PingAlwaysPonged ==
    [][ElReads("ping") =>
          /\ Len(aiOut') = Len(aiOut) + 1
          /\ aiOut'[Len(aiOut')].kind = "pong"
          /\ aiOut'[Len(aiOut')].event_id = Head(aiIn).event_id
          /\ telOut' = telOut]_vars

\* C10: an interruption read by the AI loop makes exactly one clear send on
\* the telephony socket, addressed to the recorded stream id, if the stream
\* id is known, and no send at all if it is not; nothing is sent on the AI
\* socket and the loop goes on reading.
C10_ClearIffStreamKnown ==
    [][ElReads("interruption") =>
          /\ IF stream_sid # None
             THEN /\ Len(telOut') = Len(telOut) + 1
                  /\ SubSeq(telOut', 1, Len(telOut)) = telOut
                  /\ telOut'[Len(telOut')].event = "clear"
                  /\ telOut'[Len(telOut')].streamSid = stream_sid
             ELSE telOut' = telOut
          /\ aiOut' = aiOut
          /\ elPc' = "recv"]_vars

C10_Witness ==
    /\ stream_sid # None
    /\ Len(telOut) > 0
    /\ telOut[Len(telOut)].event = "clear"
    /\ telOut[Len(telOut)].streamSid = stream_sid
    /\ telOut[Len(telOut)].ok

\* the stream id of the most recent start frame read, None before the first
LastStartSid ==
    IF startsRead = <<>> THEN None
    ELSE startsRead[Len(startsRead)].streamSid

\* the session-initialization sends made on the AI socket
InitSends ==
    SelectSeq(aiOut, LAMBDA r : r.kind = "conversation_initiation_client_data")

\* this step appends exactly one send() call to the log of the AI socket
OneAiSend ==
    /\ Len(aiOut') = Len(aiOut) + 1
    /\ SubSeq(aiOut', 1, Len(aiOut)) = aiOut

\* the client name a start frame carries ("" when it carries none)
FrameName(f) == IF f.hasParams THEN f.client_name ELSE ""

\* C11: every media and clear frame sent on the telephony socket carries a
\* non-null streamSid, the one of the most recent start frame the telephony
\* loop has read; none is sent before a start frame was read.
C11_StreamSidOfLastStart ==
    [][(/\ Len(telOut') > Len(telOut)
        /\ telOut'[Len(telOut')].event \in {"media", "clear"})
         => /\ startsRead # <<>>
            /\ telOut'[Len(telOut')].streamSid # None
            /\ telOut'[Len(telOut')].streamSid = LastStartSid]_vars

C11_Witness ==
    /\ Len(startsRead) >= 2
    /\ startsRead[1].streamSid # LastStartSid
    /\ Len(telOut) > 0
    /\ telOut[Len(telOut)].event = "media"
    /\ telOut[Len(telOut)].streamSid = LastStartSid

\* C12: a start frame whose custom parameters carry a non-empty client name,
\* read while the AI socket is open, makes exactly one session-initialization
\* send whose greeting holds that name and whose dynamic_variables carry the
\* name, and the phone number when there is one; when it is the only start
\* frame of the call there is exactly one such send.
C12_NamedStart ==
    /\ TwReads("start")
    /\ Head(telIn).hasParams
    /\ Truthy(Head(telIn).client_name)
    /\ aiState = "open"

C12_NamedStartSendsOneInit ==
    /\ []((Len(startsRead) = 1 /\ Truthy(FrameName(startsRead[1])))
             => Len(InitSends) = 1)
    /\ [][C12_NamedStart =>
            LET f == Head(telIn)
                m == aiOut'[Len(aiOut')]
            IN /\ OneAiSend
               /\ m.kind = "conversation_initiation_client_data"
               /\ m.init.first_message[2] = f.client_name
               /\ m.init.dynamic_variables.client_name = f.client_name
               /\ m.init.dynamic_variables.phone_number =
                     (IF Truthy(f.phone_number) THEN f.phone_number ELSE None)
         ]_vars

C12_Witness ==
    /\ Len(startsRead) = 1
    /\ Len(InitSends) = 1
    /\ InitSends[1].ok
    /\ InitSends[1].init.first_message[2] = "Ann"
    /\ InitSends[1].init.dynamic_variables =
          [client_name |-> "Ann", phone_number |-> "555"]

\* C13 (as claimed): a start frame that carries no client name, its custom
\* parameters absent or empty included, makes a session-initialization send
\* whose greeting addresses "there".
C13_NamelessStartSendsInit ==
    [][(TwReads("start") /\ ~Truthy(FrameName(Head(telIn)))) =>
            /\ OneAiSend
            /\ aiOut'[Len(aiOut')].kind = "conversation_initiation_client_data"
            /\ aiOut'[Len(aiOut')].init.first_message[2] = "there"]_vars

\* C13 (amended): a start frame whose custom parameters are present but
\* carry no client name makes a session-initialization send whose greeting
\* addresses "there"; a start frame without custom parameters makes no send.
C13_NamelessStartWithParams ==
    [][(TwReads("start") /\ ~Truthy(FrameName(Head(telIn)))) =>
            IF Head(telIn).hasParams
            THEN /\ OneAiSend
                 /\ aiOut'[Len(aiOut')].kind =
                       "conversation_initiation_client_data"
                 /\ aiOut'[Len(aiOut')].init.first_message[2] = "there"
            ELSE aiOut' = aiOut]_vars

C13_Witness ==
    /\ Len(startsRead) = 1
    /\ startsRead[1].hasParams /\ ~Truthy(startsRead[1].client_name)
    /\ Len(InitSends) = 1
    /\ InitSends[1].init.first_message[2] = "there"
    /\ InitSends[1].ok

\* C14: close() is called on the AI socket at most once during handle():
\* after the stop branch has called it _cleanup does not call it again, and
\* a stop frame read when the AI leg is marked closed (elevenlabs_closed)
\* does not call it.
C14_AiClosedAtMostOnce ==
    /\ [](aiCloseCalls <= 1)
    /\ []("stop" \in aiClosedBy => "cleanup" \notin aiClosedBy)
    /\ [][(TwReads("stop") /\ elevenlabs_closed)
             => aiCloseCalls' = aiCloseCalls]_vars

C14_Witness ==
    /\ hPc = "done"
    /\ aiClosedBy = {"stop"} /\ aiCloseCalls = 1
    /\ elevenlabs_closed /\ aiCloseKind = "ok"

\* C15: handle() ends only through _cleanup, which first calls close() on
\* the AI socket exactly when the socket was opened and is not marked closed,
\* then calls close() on the telephony socket whatever came before, and
\* handle() returns normally.
C15_CleanupSteps ==
    /\ (hPc = "cleanup" /\ hPc' # "cleanup") =>
          /\ hPc' = "cleanup_tel"
          /\ telCloseCalls' = telCloseCalls
          /\ aiCloseCalls' =
                IF elevenlabs_ws # None /\ ~elevenlabs_closed
                THEN aiCloseCalls + 1 ELSE aiCloseCalls
    /\ (hPc = "cleanup_tel" /\ hPc' # "cleanup_tel") =>
          /\ hPc' = "done"
          /\ telCloseCalls' = telCloseCalls + 1
          /\ aiCloseCalls' = aiCloseCalls
          /\ handleResult' = "returned"
    /\ (hPc # "done" /\ hPc' = "done") => hPc = "cleanup_tel"
    /\ (hPc # "cleanup" /\ hPc' = "cleanup") => handleResult = None

C15_CleanupAlwaysRuns ==
    /\ [](hPc = "done" => (handleResult = "returned" /\ telCloseCalls >= 1
                            /\ telApp = "DISCONNECTED"))
    /\ [](hPc # "done" => handleResult = None)
    /\ [][C15_CleanupSteps]_vars

C15_Witness ==
    /\ hPc = "done" /\ ~setupFailed
    /\ aiClosedBy = {"cleanup"} /\ aiCloseCalls = 1
    /\ telCloseCalls = 1 /\ telApp = "DISCONNECTED"
    /\ handleResult = "returned"

\* C19: get_signed_url raises the configuration error without issuing a
\* request when the API key or the agent id is absent, raises the upstream
\* error when the response status is not a success status, and issues at
\* most one request.
C19_AcquirerFailsWithoutRetry ==
    /\ httpRequests <= 1
    /\ (~Truthy(ELEVENLABS_API_KEY) \/ ~Truthy(ELEVENLABS_AGENT_ID)) =>
          /\ httpRequests = 0
          /\ hPc # "setup" => (setupError = "ValueError" /\ setupFailed)
          /\ elevenlabs_ws = None
    /\ (httpRequests = 1 /\ httpStatus # 0 /\ httpStatus \notin 200..299) =>
          /\ setupError = "UpstreamError" /\ setupFailed
          /\ elevenlabs_ws = None
    /\ setupError = "ValueError" => httpRequests = 0

C19_Witness ==
    /\ hPc = "done"
    /\ ELEVENLABS_API_KEY = "xi-key" /\ ELEVENLABS_AGENT_ID = ""
    /\ setupError = "ValueError" /\ httpRequests = 0

\* the websockets a broadcast has called send_text() for
Attempted(b) == {w \in WS : sendPc[b][w] # "none"}

\* the websockets connect() has added to the set
Added == {w \in WS : obPc[w] \in {"open", "leaving", "disc_locked", "gone"}}

\* C16: when broadcast() has returned it has returned normally, every
\* websocket of its list whose send did not fail got the message exactly
\* once, and every one whose send failed got nothing and is not in the set.
C16_BroadcastIsolatesFailures ==
    \A b \in BC :
      /\ bcResult[b] # "raised"
      /\ \A w \in WS : received[w][b] <= 1
      /\ bcPc[b] = "done" =>
           /\ bcResult[b] = "returned"
           /\ \A w \in snapshot[b] :
                \/ sendPc[b][w] = "sent" /\ received[w][b] = 1
                \/ /\ sendPc[b][w] = "removed" /\ received[w][b] = 0
                   /\ w \notin connections

C16_Witness ==
    /\ bcPc[Broadcast(1)] = "done"
    /\ snapshot[Broadcast(1)] = WS
    /\ sendPc[Broadcast(1)][Observer(1)] = "removed"
    /\ sendPc[Broadcast(1)][Observer(2)] = "sent"
    /\ connections = WS \ {Observer(1)}

\* a disconnect(w) call completes in this step
C17_Step(w) ==
    discardCalls'[w] = discardCalls[w] + 1 =>
       /\ connections' = connections \ {w}
       /\ dashErrors' = dashErrors

\* C17: disconnect() never raises, whether or not the websocket is in the
\* set; it leaves the other members as they are and the websocket out.
C17_DisconnectIdempotent ==
    /\ [](dashErrors = {})
    /\ [][\A w \in WS : C17_Step(w)]_vars

C17_Witness ==
    /\ discardCalls[Observer(1)] = 2
    /\ obPc[Observer(1)] = "gone"
    /\ connections = WS \ {Observer(1)}
    /\ dashErrors = {}

\* C18: a broadcast calls send_text() only for the websockets of the copy it
\* took while holding the lock, and for all of them by the time it returns;
\* a websocket outside the copy gets nothing from it; the copy never changes
\* afterwards; the set holds exactly the websockets added and not discarded.
C18_Recipients ==
    \A b \in BC :
      /\ Attempted(b) \subseteq snapshot[b]
      /\ bcPc[b] = "done" => Attempted(b) = snapshot[b]
      /\ \A w \in WS \ snapshot[b] : received[w][b] = 0

C18_SnapshotFixed ==
    \A b \in BC :
      snapshot'[b] # snapshot[b] =>
         /\ bcPc[b] = "snap_locked" /\ locked
         /\ snapshot'[b] = connections

C18_SendsFollowSnapshot ==
    /\ [](C18_Recipients)
    /\ [](connections = {w \in Added : discardCalls[w] = 0})
    /\ [][C18_SnapshotFixed]_vars

C18_Witness ==
    /\ bcPc[Broadcast(1)] = "done"
    /\ snapshot[Broadcast(1)] = {Observer(1)}
    /\ received[Observer(1)][Broadcast(1)] = 1
    /\ Observer(2) \in connections
    /\ received[Observer(2)][Broadcast(1)] = 0

\* the last send() call made on the AI socket in this step, if one was made
AiSendMade == Len(aiOut') = Len(aiOut) + 1

\* C21: once the AI loop has exited, the telephony loop reads no further
\* frame with elevenlabs_closed still false.
C21_ClosedFlagSetOnAiExit ==
    [][(elPc = "done" /\ telReads' = telReads + 1) => elevenlabs_closed]_vars

\* C22: a send of an audio-chunk message that raises, whatever the
\* exception, sets elevenlabs_closed and does not leave the telephony loop
\* as an exception.
C22_AudioSendErrorMarksClosed ==
    [][(/\ AiSendMade
        /\ aiOut'[Len(aiOut')].kind = "user_audio_chunk"
        /\ ~aiOut'[Len(aiOut')].ok)
         => (elevenlabs_closed' /\ twPc' \in {"top", "done"})]_vars

\* C23: a telephony frame that cannot be parsed, or a start frame without
\* its fields, is skipped: the telephony loop goes back to the top of the
\* loop and reads on.
C23_MalformedFrameSkipped ==
    [][(/\ twPc = "recv" /\ telIn # <<>> /\ Malformed(Head(telIn))
        /\ telReads' = telReads + 1)
         => twPc' = "top"]_vars

\* C24: every message the AI loop reads, a failing one included, leaves the
\* loop reading and elevenlabs_closed as it was; a message that cannot be
\* parsed changes no session field and makes no send on either socket.
C24_BadAiFrameSkipped ==
    [][(elPc = "recv" /\ aiIn # <<>> /\ aiIn' = Tail(aiIn)) =>
          /\ elPc' = "recv"
          /\ elevenlabs_closed' = elevenlabs_closed
          /\ Head(aiIn).type = "<not json>" =>
                UNCHANGED <<sessionVars, aiOut, telOut, links>>]_vars

C24_Witness ==
    /\ "ai" \in parseErrors
    /\ telSupplied = 1 /\ aiSupplied = 2
    /\ Len(telOut) = 1
    /\ telOut[1].event = "media" /\ telOut[1].payload = Payload(1)
    /\ telOut[1].ok
    /\ ~elevenlabs_closed /\ elPc = "recv"

\* C25: whenever the session holds both a call id and a conversation id,
\* the conversation id is linked to the call id in the call-record store.
C25_BothKnownImpliesLinked ==
    (Truthy(call_sid) /\ Truthy(conversation_id))
       => <<conversation_id, call_sid>> \in links

\* C26: at most one session-initialization message is sent on the AI socket
\* during a call.
C26_AtMostOneInit == Len(InitSends) <= 1

\* C27: once the telephony loop has read a stop frame it reads no further
\* frame and is leaving; no message goes out on the AI socket afterwards and
\* the telephony loop makes no further send call; when the AI socket was
\* open at that moment, close() has been called on it.
C27_StopEndsLoop ==
    stopAt.seen =>
       /\ twPc \in {"closing", "done"}
       /\ telReads = stopAt.reads
       /\ \A i \in (stopAt.sends + 1)..Len(aiOut) :
             ~aiOut[i].ok /\ aiOut[i].kind = "pong"
       /\ stopAt.open => ("stop" \in aiClosedBy /\ aiState = "closed")

C27_Witness ==
    /\ stopAt.seen /\ stopAt.open
    /\ hPc = "done" /\ twPc = "done"
    /\ telIn # <<>>
    /\ aiClosedBy = {"stop"}

\* C28: once the relay runs and both sockets have gone, handle() returns.
C28_BothGoneTerminates ==
    (hPc = "relay" /\ telPeerGone /\ aiState = "closed") ~> (hPc = "done")

C28_Witness ==
    /\ hPc = "done" /\ ~setupFailed
    /\ telPeerGone /\ aiCloseKind = "error" /\ aiCloseCalls = 0
    /\ handleResult = "returned"

\* C29: no exception leaves either loop or handle(); handle() returns after
\* both loops have ended; while the AI connection is open the AI loop keeps
\* reading whatever happened in the telephony loop; the telephony loop keeps
\* running until it reads a stop frame or a frame it cannot parse, its socket
\* disconnects, or the AI leg is marked closed.
C29_NoErrorEscapes ==
    /\ twPc # "raised" /\ elPc # "raised" /\ handleResult # "raised"
    /\ hPc = "done" => handleResult = "returned"
    /\ (hPc \in {"cleanup", "cleanup_tel", "done"} /\ ~setupFailed)
          => (twPc = "done" /\ elPc = "done")
    /\ (hPc = "relay" /\ aiState = "open") => elPc = "recv"
    /\ (/\ hPc = "relay" /\ ~elevenlabs_closed /\ ~stopAt.seen
        /\ "tel" \notin parseErrors /\ telClient = "CONNECTED")
          => twPc \in {"top", "recv"}

C29_Witness ==
    /\ hPc = "done" /\ handleResult = "returned"
    /\ parseErrors = {"tel", "ai"}
    /\ \E i \in 1..Len(aiOut) : ~aiOut[i].ok

\* payloads of the media send_text() calls made on the telephony socket
TelMediaSent ==
    LET s == SelectSeq(telOut, LAMBDA r : r.event = "media")
    IN [i \in 1..Len(s) |-> s[i].payload]

\* C30: the media frames sent on the telephony socket carry, in order and
\* one for one, the payloads of the audio messages the AI loop has read with
\* a non-empty payload while stream_sid was set.
C30_AiForwardingPreservesOrder == TelMediaSent = audioEligible

C30_Witness ==
    /\ Len(audioEligible) = 2
    /\ TelMediaSent = <<Payload(0), Payload(1)>>
    /\ \A i \in 1..Len(telOut) : telOut[i].ok

\* the AI messages read while stream_sid was unknown
Dropped == SelectSeq(aiRead, LAMBDA r : r.sid = None)

\* the number of send_text() calls made for frames with this event tag
TelSendsOf(ev) == Len(SelectSeq(telOut, LAMBDA r : r.event = ev))

\* the number of messages of this type read while stream_sid was known
ReadWithStream(type) ==
    Len(SelectSeq(aiRead, LAMBDA r : r.type = type /\ r.sid # None))

\* C31: an audio or interruption message read while stream_sid is unknown is
\* dropped: no telephony frame is sent for it then or later (the media and
\* clear frames sent are never more than the messages read while stream_sid
\* was known, no media frame carries a payload of a dropped message, and
\* nothing is relayed before a start frame was read).
C31_DroppedNotBuffered ==
    /\ TelSendsOf("media") <= ReadWithStream("audio")
    /\ TelSendsOf("clear") = ReadWithStream("interruption")
    /\ \A i \in 1..Len(Dropped) : \A j \in 1..Len(telOut) :
          telOut[j].event = "media" =>
             telOut[j].payload \notin {Dropped[i].chunk,
                                       Dropped[i].audio_base_64}
    /\ startsRead = <<>> => (TelSendsOf("media") = 0 /\ TelSendsOf("clear") = 0)

C31_Witness ==
    /\ Len(Dropped) = 1
    /\ Dropped[1].type = "audio" /\ Dropped[1].chunk = Payload(0)
    /\ stream_sid # None
    /\ TelSendsOf("media") = 1
    /\ telOut[1].payload = Payload(1)

\* C32: a telephony frame whose event tag is not start, media or stop, or is
\* missing, makes no send on either socket, changes no session field, and
\* the telephony loop returns to the top of its loop.
C32_UnknownEventIgnored ==
    [][(/\ twPc = "recv" /\ telIn # <<>>
        /\ Head(telIn).event \notin {"start", "media", "stop", "<not json>"}
        /\ telReads' = telReads + 1)
         => /\ UNCHANGED <<sessionVars, aiOut, telOut, aiCloseCalls,
                           telCloseCalls, links>>
            /\ twPc' = "top"]_vars

C32_Witness ==
    /\ telReads = 3 /\ telIn = <<>>
    /\ twPc = "recv"
    /\ stream_sid = StreamSid(0)
    /\ mediaConsumed = <<Payload(2)>>
    /\ AudioChunksSent = <<Payload(2)>>

\* the payload the forwarded frame carries for an audio message with these
\* two fields, None when no frame is sent
C33_Expected(r) ==
    IF r.chunk \notin {None, ""} THEN r.chunk
    ELSE IF r.audio_base_64 \notin {None, ""} THEN r.audio_base_64
    ELSE None

\* C33: the media frames sent carry, for each audio message read while
\* stream_sid was known, audio.chunk when that field is non-empty (whether
\* or not audio_event.audio_base_64 is present), else
\* audio_event.audio_base_64 when that one is non-empty; an audio message
\* with neither makes no frame.
C33_PayloadChoice ==
    LET a == SelectSeq(aiRead, LAMBDA r : /\ r.type = "audio" /\ r.sid # None
                                          /\ C33_Expected(r) # None)
    IN TelMediaSent = [i \in 1..Len(a) |-> C33_Expected(a[i])]

C33_Witness ==
    /\ Len(aiRead) = 2
    /\ aiRead[1].chunk = Payload(0) /\ aiRead[1].audio_base_64 = AltPayload(0)
    /\ aiRead[2].chunk = "" /\ aiRead[2].audio_base_64 = AltPayload(1)
    /\ TelMediaSent = <<Payload(0), AltPayload(1)>>

\* the phase of the bridge: 0 Initializing, 1 BothConnected, 2 Draining
\* (teardown), 3 Closed
Phase(pc) ==
    CASE pc \in {"setup", "connect"} -> 0
      [] pc = "relay" -> 1
      [] pc \in {"cleanup", "cleanup_tel"} -> 2
      [] pc = "done" -> 3

\* C34: the bridge moves Initializing, BothConnected, Closed in this order
\* and never back; before the AI socket is connected neither loop runs and
\* no frame is read or sent; both loops start in the same step; once handle()
\* has returned no frame is read from or sent on either socket.
C34_PhaseOrder ==
    /\ [](Phase(hPc) = 0 =>
            /\ elPc = "idle" /\ twPc = "idle" /\ aiState = "none"
            /\ telReads = 0 /\ aiOut = <<>> /\ telOut = <<>> /\ aiRead = <<>>)
    /\ []((elPc = "idle") <=> (twPc = "idle"))
    /\ [](Phase(hPc) = 1 => (aiState # "none" /\ elevenlabs_ws # None))
    /\ [][/\ Phase(hPc') >= Phase(hPc)
          /\ (Phase(hPc) = 0 /\ Phase(hPc') # 0) =>
                \/ Phase(hPc') = 1 /\ elPc' = "recv" /\ twPc' = "top"
                \/ Phase(hPc') = 2 /\ setupFailed'
          /\ hPc = "done" =>
                /\ telReads' = telReads /\ telIn' = telIn
                /\ Len(aiIn') >= Len(aiIn)
                /\ aiOut' = aiOut /\ telOut' = telOut]_vars

C34_Witness ==
    /\ hPc = "done" /\ ~setupFailed
    /\ telIn # <<>>
    /\ telReads = 1 /\ Len(aiOut) = 1

\* C35: elevenlabs_closed starts false and is never reset: no step takes it
\* from true to false.
C35_ClosedFlagMonotonic ==
    /\ [](hPc \in {"setup", "connect"} => ~elevenlabs_closed)
    /\ [][elevenlabs_closed => elevenlabs_closed']_vars

C35_Witness ==
    /\ hPc = "done"
    /\ elevenlabs_closed
    /\ aiClosedBy = {"stop"} /\ aiCloseKind = "ok"
    /\ elPc = "done" /\ twPc = "done"

\* this step makes a media or clear send_text() call that fails
TelRelayFails ==
    /\ Len(telOut') = Len(telOut) + 1
    /\ telOut'[Len(telOut')].event \in {"media", "clear"}
    /\ ~telOut'[Len(telOut')].ok

\* C36: a media or clear send on the telephony socket that fails leaves the
\* AI loop reading and elevenlabs_closed as it was; while the AI loop reads,
\* every ping with an event id is still answered.
C36_TelSendFailureKeepsAiLoop ==
    /\ [][TelRelayFails =>
            (elPc' = "recv" /\ elevenlabs_closed' = elevenlabs_closed)]_vars
    /\ [][(ElReads("ping") /\ Head(aiIn).event_id # 0) =>
            (AiSendMade /\ aiOut'[Len(aiOut')].kind = "pong")]_vars

C36_Witness ==
    /\ Len(telOut) = 1 /\ telOut[1].event = "media" /\ ~telOut[1].ok
    /\ Len(aiOut) = 1 /\ aiOut[1].kind = "pong" /\ aiOut[1].ok
    /\ ~elevenlabs_closed /\ elPc = "recv"
    /\ aiSupplied = 2

\* the coroutines that are inside an `async with self._lock` block
LockHolders ==
    Cardinality({w \in WS : obPc[w] \in {"add_locked", "disc_locked"}})
    + Cardinality({b \in BC : bcPc[b] = "snap_locked"})
    + Cardinality({p \in BC \X WS : sendPc[p[1]][p[2]] = "disc_locked"})

\* C37: the lock is held by one coroutine at a time and never by a broadcast
\* that is sending; every connect, disconnect and broadcast call, and the
\* unregistration after a failed send, gets the lock and completes; every
\* broadcast returns, and then each of its sends has completed or failed.
C37_FanOutDeadlockFree ==
    /\ [](LockHolders = (IF locked THEN 1 ELSE 0))
    /\ [](\A b \in BC : bcPc[b] = "done" =>
             \A w \in snapshot[b] : sendPc[b][w] \in {"sent", "removed"})
    /\ \A w \in WS : (obPc[w] = "accepted") ~> (obPc[w] = "open")
    /\ \A w \in WS : (obPc[w] = "leaving") ~> (obPc[w] = "gone")
    /\ \A b \in BC : \A w \in WS :
          (sendPc[b][w] = "failed") ~> (sendPc[b][w] = "removed")
    /\ \A b \in BC : (bcPc[b] # "done") ~> (bcPc[b] = "done")

C37_Witness ==
    /\ \A b \in BC : bcPc[b] = "done"
    /\ sendPc[Broadcast(1)][Observer(1)] = "removed"
    /\ sendPc[Broadcast(2)][Observer(1)] = "removed"
    /\ discardCalls[Observer(1)] = 3
    /\ snapshot[Broadcast(1)] = {Observer(1)}
    /\ snapshot[Broadcast(2)] = {Observer(1)}
    /\ obPc[Observer(2)] = "open"

\* the greatest element of a non-empty set of numbers
MaxOf(S) == CHOOSE x \in S : \A y \in S : y <= x

\* the positions before i of the link calls made for this conversation
LinksBefore(conv, i) ==
    {j \in 1..(i - 1) : /\ opLog[j].op = "link"
                        /\ opLog[j].conversation_id = conv}

\* the conversation was linked before position i and not cleaned up since
LinkedAt(conv, i) ==
    /\ LinksBefore(conv, i) # {}
    /\ \A j \in (MaxOf(LinksBefore(conv, i)) + 1)..(i - 1) :
          ~(opLog[j].op = "cleanup" /\ opLog[j].conversation_id = conv)

\* store(call, name, phone); link(conv, call); lookup(conv) returns the
\* stored name and phone
C38_StoreLinkLookup ==
    \A i \in 1..(Len(opLog) - 2) :
       (/\ opLog[i].op = "store" /\ opLog[i + 1].op = "link"
        /\ opLog[i + 2].op = "lookup"
        /\ opLog[i + 1].call_sid = opLog[i].call_sid
        /\ opLog[i + 2].conversation_id = opLog[i + 1].conversation_id)
         => opLog[i + 2].result =
               {[client_name |-> opLog[i].client_name,
                 phone_number |-> opLog[i].phone_number]}

\* right after cleanup(conv) of a linked conversation neither its link nor
\* the metadata of its call is left
C38_CleanupRemoves ==
    LET n == Len(opLog)
    IN (/\ n > 0 /\ opLog[n].op = "cleanup"
        /\ LinkedAt(opLog[n].conversation_id, n))
         => LET conv == opLog[n].conversation_id
                call == opLog[MaxOf(LinksBefore(conv, n))].call_sid
            IN /\ \A p \in links : p[1] # conv
               /\ \A m \in call_metadata : m.call_sid # call

\* a lookup that follows cleanup(conv), and a lookup of a conversation that
\* was never linked, return the empty result
C38_LookupEmpty ==
    \A i \in 1..Len(opLog) :
       (/\ opLog[i].op = "lookup"
        /\ \/ LinksBefore(opLog[i].conversation_id, i) = {}
           \/ /\ i > 1 /\ opLog[i - 1].op = "cleanup"
              /\ opLog[i - 1].conversation_id = opLog[i].conversation_id)
         => opLog[i].result = {}

\* cleanup of a conversation that was never linked changes nothing
C38_CleanupOfUnknown ==
    (/\ Len(opLog') = Len(opLog) + 1
     /\ opLog'[Len(opLog')].op = "cleanup"
     /\ LinksBefore(opLog'[Len(opLog')].conversation_id, Len(opLog') ) = {})
      => UNCHANGED <<call_metadata, links>>

\* C38: after store_call_metadata(call, name, phone) and
\* link_conversation_to_call(conv, call) the lookup by conv returns the
\* stored name and phone; after cleanup_call_metadata(conv) the link of conv
\* and the metadata of its call are gone and the lookup returns the empty
\* result; a lookup of a conversation never linked returns the empty result
\* and its cleanup changes nothing.
C38_CorrelationStore ==
    /\ [](C38_StoreLinkLookup)
    /\ [](C38_CleanupRemoves)
    /\ [](C38_LookupEmpty)
    /\ [][C38_CleanupOfUnknown]_vars

C38_Witness ==
    /\ Len(opLog) = 4
    /\ opLog[1].op = "store" /\ opLog[1].call_sid = CallSid(0)
    /\ opLog[1].client_name = "Ann"
    /\ opLog[2].op = "link" /\ opLog[2].call_sid = CallSid(0)
    /\ opLog[2].conversation_id = "conv1"
    /\ opLog[3].op = "lookup" /\ opLog[3].conversation_id = "conv1"
    /\ opLog[3].result = {[client_name |-> "Ann", phone_number |-> "555"]}
    /\ opLog[4].op = "cleanup" /\ opLog[4].conversation_id = "conv1"
    /\ call_metadata = {} /\ links = {}

\* the batch (from 0) the i-th request belongs to
BatchOf(i) == (i - 1) \div batch_size

\* the requests whose call has been started and has not completed
InFlight == {i \in DOMAIN callState : callState[i] = "inflight"}

\* C39: at most batch_size calls are in flight; a call of a later batch is
\* started only when every call of the earlier batches has completed; the
\* results gathered so far are those of the first requests, in request
\* order; when the function returns every call was made, a failed one
\* included, and the list holds one result per request in request order, a
\* failure result for a failed call.
C39_Batching ==
    bPc # "idle" =>
      /\ Cardinality(InFlight) <= batch_size
      /\ \A i \in DOMAIN callState : \A j \in DOMAIN callState :
            (BatchOf(i) < BatchOf(j) /\ callState[j] # "pending")
               => callState[i] \in {"ok", "failed"}
      /\ Len(all_results) <= Len(call_requests)
      /\ \A i \in 1..Len(all_results) :
            /\ all_results[i].to_number = call_requests[i].to_number
            /\ all_results[i].success = (callState[i] = "ok")
            /\ callState[i] = "failed" => all_results[i].call_sid = None
      /\ bPc = "done" =>
            /\ Len(all_results) = Len(call_requests)
            /\ \A i \in DOMAIN callState : callState[i] \in {"ok", "failed"}

C39_Witness ==
    /\ bPc = "done"
    /\ Len(call_requests) = 3 /\ batch_size = 2
    /\ callState = <<"failed", "ok", "ok">>
    /\ Len(all_results) = 3
    /\ ~all_results[1].success /\ all_results[3].success
    /\ all_results[3].to_number = Request(3).to_number

\* the header of the request carries a timestamp and a signature, and the
\* signature is the HMAC of the timestamp and the body under the secret
C40_Verifies ==
    \E i \in 1..Len(hookReq.signature.parts) :
    \E j \in 1..Len(hookReq.signature.parts) :
       /\ hookReq.signature.parts[i].key = "t"
       /\ hookReq.signature.parts[j].key = "v0"
       /\ hookReq.signature.parts[i].value # ""
       /\ hookReq.signature.parts[j].value =
             Hmac(ELEVENLABS_WEBHOOK_SECRET,
                  hookReq.signature.parts[i].value, hookReq.body)

\* C40: with a webhook secret configured, a request whose signature header
\* is missing or does not verify is answered 401 right after the check: no
\* record is upserted, no notification sent, no broadcast made, and the
\* correlation store is neither read nor cleaned up.
C40_RejectedBeforeSideEffects ==
    (/\ ELEVENLABS_WEBHOOK_SECRET # ""
     /\ hookPc # "idle"
     /\ ~hookReq.signature.present \/ ~C40_Verifies)
      => /\ hookPc \in {"verify", "done"}
         /\ hookPc = "done" => hookStatus = 401
         /\ hookEffects = <<>>
         /\ \A i \in 1..Len(opLog) : opLog[i].op \in {"store", "link"}
         /\ Len(opLog) = 2 =>
               (call_metadata # {} \/ links # {})

C40_Witness ==
    /\ ELEVENLABS_WEBHOOK_SECRET = "whsec"
    /\ hookPc = "done" /\ hookStatus = 401
    /\ hookReq.body = "payload-conv1"
    /\ PartValue(hookReq.signature.parts, "v0") =
          Hmac("other", "1700", "payload-conv1")
    /\ hookEffects = <<>>
    /\ Len(opLog) = 2 /\ call_metadata # {} /\ links # {}

=============================================================================
